---- MODULE Spec2Model ----
(***************************************************************************)
(* A model of the Amaidesu core: the signal bus (SynapticNetwork), the     *)
(* component lifecycle (Neuron) and its coordinator (CortexBase), the      *)
(* fault layer (ImmuneSystem, with_immune_system) and the plugin manager   *)
(* (PluginManager).  Every subsystem has a specification of its own over   *)
(* the same variables; the variables of the other subsystems stay as Init  *)
(* leaves them.                                                            *)
(***************************************************************************)
EXTENDS Integers, Sequences, FiniteSets, TLC

VARIABLES
    \* ---- SynapticNetwork (src/src/core/synaptic_network.py)
    receptors,              \* _receptors: signal type -> list of receptors
    async_receptors,        \* _async_receptors
    global_receptors,       \* _global_receptors
    async_global_receptors, \* _async_global_receptors
    net_is_active,          \* _is_active
    processing_queue,       \* _processing_queue
    processing_task,        \* _processing_task, by the worker's position
    async_tasks,            \* the receptor tasks the worker's gather still awaits
    stats,                  \* _stats (the counters)
    \* ---- what an observer of the bus records
    regs,                   \* id -> filter -> number of register_receptor calls with
                            \* them, not counting those made before an unregister of the id
    dead,                   \* id -> number of events accepted before the id was
                            \* unregistered (and not registered since), else -1
    accepted,               \* number of events transmit() has accepted
    last_dispatch,          \* the event dispatched last and who was invoked for it
    last_unregister,        \* the last unregister_receptor call made since the last
                            \* register_receptor call, and its result
    stopping,               \* a stop() call is awaiting the cancelled worker
    \* ---- Connector (src/src/connectors/base_connector.py)
    connection_state,       \* connection_state
    reconnect_task,         \* reconnect_task, by the state of the task it refers to
    reconnect_attempts,     \* reconnect_attempts
    loop_attempts,          \* _connect() calls the reconnect loop created last has made
    stopped_at,             \* the events transmit() had accepted when stop() was last
                            \* called on the running bus
    reg_seq,                \* the synchronous receptors in the order of their
                            \* register_receptor calls, without those of an id
                            \* that was unregistered since
    workers,                \* the worker tasks start() created that have not ended
    \* ---- Neuron (src/src/neurons/neuron.py)
    is_active,              \* neuron -> is_active
    receptor_ids,           \* neuron -> receptor_ids
    neuron_errors,          \* neuron -> stats["errors"]
    \* ---- CortexBase (src/src/core/central_cortex.py)
    neurons,                \* neurons
    active_neurons,         \* active_neurons
    activation_order,       \* activation_order
    deactivation_order,     \* deactivation_order
    \* ---- CentralCortex (src/src/core/central_cortex.py): neurons and the
    \* orders hold the components of its sensory_cortex and its motor_cortex
    \* together, each cortex holding the components of its type
    connectors,             \* connectors
    active_connectors,      \* active_connectors
    \* ---- what an observer of the components records
    last_call,              \* the last call on a component or on the cortex: the
                            \* state it found and the steps it ran
    \* ---- ImmuneSystem (src/src/cerebellum/immune_system.py)
    quarantined_neurons,    \* quarantined_neurons
    recovery_configs,       \* recovery_configs: name -> RecoveryConfig (NoConfig: no entry)
    failure_counters,       \* failure_counters: name -> count (0: no entry)
    neuron_health,          \* neuron_health in units of 0.05 (full health: no entry)
    exception_history,      \* len(exception_history)
    wrapped,                \* a call of an operation wrapped by with_immune_system
    exception_handlers,     \* exception_handlers: type -> list of handlers
    \* ---- what an observer of the immune system records
    failure_run,            \* name -> handle_exception calls naming it since the last
                            \* other call that named it
    run_from_full,          \* name -> whether that run of failures began at full health
    fallback_called,        \* the last call on the immune system called the
                            \* fallback_function of a policy
    handler_calls,          \* handler -> how often that call invoked it
    \* ---- PluginManager (src/src/neural_plasticity/plugin_manager.py)
    plugins,                \* plugins: id -> PluginMetadata (NoPlugin: no entry)
    loaded_plugins,         \* loaded_plugins: the ids, in the order of their insertion
    cortex_of,              \* id -> the category of the central cortex that holds the
                            \* component of the loaded plugin
    load_stack,             \* the load_plugin calls in progress, the innermost last
    load_result,            \* what the last outermost load_plugin call, or the last
                            \* unload_plugin call, returned or raised
    load_call,              \* the plugin_id that call was made with
    plugin_config,          \* enabled_plugins and disabled_plugins, as configured
    enabled_todo            \* the ids the loop of load_enabled_plugins has yet to
                            \* come to

busVars == <<receptors, async_receptors, global_receptors, async_global_receptors,
             net_is_active, processing_queue, processing_task, async_tasks, stats,
             regs, dead, accepted, last_dispatch, last_unregister, stopping, stopped_at,
             reg_seq, workers>>

connectorVars == <<connection_state, reconnect_task, reconnect_attempts, loop_attempts>>

cortexVars == <<is_active, receptor_ids, neuron_errors, neurons, active_neurons,
                activation_order, deactivation_order, connectors, active_connectors,
                last_call, connectorVars>>

immuneVars == <<quarantined_neurons, recovery_configs, failure_counters, neuron_health,
                exception_history, wrapped, failure_run, run_from_full,
                fallback_called, exception_handlers, handler_calls>>

pluginVars ==
    <<plugins, loaded_plugins, cortex_of, load_stack, load_result, load_call,
      plugin_config, enabled_todo>>

vars == <<busVars, cortexVars, immuneVars, pluginVars>>

-----------------------------------------------------------------------------
(* Bounds of the model.                                                    *)

\* number of receptor entries the bus tables hold at most
MaxReceptors == 2
\* number of events transmit() accepts in one run
MaxTransmits == 2
\* failures of the component-specific steps, over all components
MaxErrors == 2
\* incidents handle_exception is given
MaxIncidents == 4
\* register_exception_handler calls
MaxHandlers == 2
\* the connector's max_reconnect_attempts
max_reconnect_attempts == 2
\* nested calls the interpreter allows before it raises RecursionError
MaxDepth == 4

-----------------------------------------------------------------------------
(* Sequences and strings.  A string is the sequence of its characters.     *)

RECURSIVE SeqSum(_)
SeqSum(s) == IF s = <<>> THEN 0 ELSE Head(s) + SeqSum(Tail(s))

\* Python's "pattern in text" on strings
Contains(text, pattern) ==
    \E i \in 0..(Len(text) - Len(pattern)) :
        SubSeq(text, i + 1, i + Len(pattern)) = pattern

\* list.pop(i)
Pop(s, i) == SubSeq(s, 1, i - 1) \o SubSeq(s, i + 1, Len(s))

-----------------------------------------------------------------------------
(* Signals.                                                                *)

SignalType == {"SENSORY", "CORE", "MOTOR", "SYSTEM"}

\* SignalPriority: auto() numbers the members from 1
LOW == 1
NORMAL == 2
HIGH == 3
URGENT == 4
SignalPriority == LOW..URGENT

NoTarget == <<>>

Signal(t, src, tgt, p) == [signal_type |-> t, source |-> src, target |-> tgt, priority |-> p]

-----------------------------------------------------------------------------
(* SignalFilter.  present = FALSE stands for "no filter" (None); an empty  *)
(* set of types or patterns and min_priority 0 stand for None as well.     *)
(* custom_filter names what the predicate does: "none" (not given),        *)
(* "accept", "reject", "raise".                                            *)

SignalFilter(types, srcs, tgts, minp, custom) ==
    [present |-> TRUE, signal_types |-> types, source_patterns |-> srcs,
     target_patterns |-> tgts, min_priority |-> minp, custom_filter |-> custom]

NoFilter ==
    [present |-> FALSE, signal_types |-> {}, source_patterns |-> {},
     target_patterns |-> {}, min_priority |-> 0, custom_filter |-> "none"]

\* a match that lacks the test of the minimum priority
match_any_priority(f, signal) ==
    IF f.signal_types # {} /\ signal.signal_type \notin f.signal_types THEN "false"
    ELSE IF f.source_patterns # {}
            /\ ~\E p \in f.source_patterns : Contains(signal.source, p) THEN "false"
    ELSE IF f.target_patterns # {} /\ signal.target # NoTarget
            /\ ~\E p \in f.target_patterns : Contains(signal.target, p) THEN "false"
    ELSE IF f.custom_filter = "raise" THEN "raise"
    ELSE IF f.custom_filter = "reject" THEN "false"
    ELSE "true"

\* SignalFilter.match: "true", "false", or "raise" when the predicate raises
match(f, signal) ==
    IF f.signal_types # {} /\ signal.signal_type \notin f.signal_types THEN "false"
    ELSE IF f.source_patterns # {}
            /\ ~\E p \in f.source_patterns : Contains(signal.source, p) THEN "false"
    ELSE IF f.target_patterns # {} /\ signal.target # NoTarget
            /\ ~\E p \in f.target_patterns : Contains(signal.target, p) THEN "false"
    ELSE IF f.min_priority # 0 /\ signal.priority < f.min_priority THEN "false"
    ELSE IF f.custom_filter = "raise" THEN "raise"
    ELSE IF f.custom_filter = "reject" THEN "false"
    ELSE "true"


-----------------------------------------------------------------------------
(* SynapticNetwork.  A receptor is [id, filter]; its id is                 *)
(* str(id(callback)), so the callback stands for the id: registrations of  *)
(* the same callback share it.  The filter of a receptor is one of a few   *)
(* filter objects, held by its name.                                       *)

CallbackIds == {"k1", "k2"}

Receptor(cb, f) == [id |-> cb, filter |-> f]

\* the filters the bus is driven with: none, a filter on two types with a
\* minimum priority, and a filter without types whose predicate raises
BusFilters == {"none", "two_types_high", "raising"}

\* filters on the types of the signal, with and without a minimum priority
PriorityFilters == {"motor_normal", "sensory", "two_types_high"}

\* filters on the target of the signal, on its source with a predicate that
\* accepts, on its type with a predicate that rejects, and on its type with
\* a minimum priority
MatchFilters == {"to_tts", "from_cmd", "rejecting", "motor_normal"}

\* the filter of Actuator._register_receptors: the accepted signal types
AllFilters == BusFilters \cup PriorityFilters \cup MatchFilters \cup {"accepted_types"}

BusFilterOrder ==
    <<"none", "two_types_high", "raising", "accepted_types", "motor_normal", "sensory",
      "to_tts", "from_cmd", "rejecting">>

FilterOf(name) ==
    CASE name = "none" -> NoFilter
      [] name = "two_types_high" -> SignalFilter({"SENSORY", "MOTOR"}, {}, {}, HIGH, "none")
      [] name = "raising" -> SignalFilter({}, {}, {}, 0, "raise")
      [] name = "accepted_types" -> SignalFilter({"MOTOR"}, {}, {}, 0, "none")
      [] name = "motor_normal" -> SignalFilter({"MOTOR"}, {}, {}, NORMAL, "none")
      [] name = "sensory" -> SignalFilter({"SENSORY"}, {}, {}, 0, "none")
      [] name = "to_tts" -> SignalFilter({}, {}, {<<"t", "t", "s">>}, 0, "none")
      [] name = "from_cmd" -> SignalFilter({}, {<<"m", "d">>}, {}, 0, "accept")
      [] name = "rejecting" -> SignalFilter({"MOTOR"}, {}, {}, 0, "reject")

\* the test of _process_signal: not receptor["filter"] or receptor["filter"].match(signal)
Passes(receptor, signal) ==
    IF ~FilterOf(receptor.filter).present THEN "true"
    ELSE match(FilterOf(receptor.filter), signal)

\* the events the bus is driven with
BusSignals ==
    {Signal("SENSORY", <<"s">>, NoTarget, NORMAL),
     Signal("MOTOR", <<"c", "m", "d">>, NoTarget, HIGH)}

\* events of one type and source in each priority, and one of another type
PrioritySignals ==
    {Signal("MOTOR", <<"c", "m", "d">>, NoTarget, p) : p \in SignalPriority}
        \cup {Signal("SENSORY", <<"s">>, NoTarget, NORMAL)}

\* events with and without a target, of two types, sources and priorities
MatchSignals ==
    {Signal("MOTOR", <<"c", "m", "d">>, NoTarget, LOW),
     Signal("MOTOR", <<"c", "m", "d">>, <<"t", "t", "s">>, NORMAL),
     Signal("SENSORY", <<"s">>, <<"l", "l", "m">>, NORMAL),
     Signal("SENSORY", <<"s">>, NoTarget, HIGH)}

NoUnregister ==
    [id |-> "k1", repeated |-> FALSE, result |-> FALSE, removed |-> FALSE,
     called |-> FALSE]

NoCalls == [k \in CallbackIds |-> 0]

\* how often each callback id occurs in a list of receptors
Calls(list) == [k \in CallbackIds |-> Cardinality({i \in 1..Len(list) : list[i].id = k})]

AddCalls(a, b) == [k \in CallbackIds |-> a[k] + b[k]]

\* the members of SignalType in the order of the enumeration
SignalTypeOrder == <<"SENSORY", "CORE", "MOTOR", "SYSTEM">>

EntryCount(tables) ==
    Len(tables.global_receptors) + Len(tables.async_global_receptors)
    + SeqSum([i \in 1..Len(SignalTypeOrder) |->
                Len(tables.receptors[SignalTypeOrder[i]])
                + Len(tables.async_receptors[SignalTypeOrder[i]])])

Tables ==
    [receptors |-> receptors, async_receptors |-> async_receptors,
     global_receptors |-> global_receptors,
     async_global_receptors |-> async_global_receptors]

TotalEntries == EntryCount(Tables)

\* the worker is between two suspension points: no other task runs
WorkerRuns == processing_task = "running"

BusInit ==
    /\ receptors = [t \in SignalType |-> <<>>]
    /\ async_receptors = [t \in SignalType |-> <<>>]
    /\ global_receptors = <<>>
    /\ async_global_receptors = <<>>
    /\ net_is_active = FALSE
    /\ processing_queue = <<>>
    /\ processing_task = "none"
    /\ async_tasks = <<>>
    /\ stats = [signals_processed |-> 0,
                signals_by_type |-> [t \in SignalType |-> 0],
                signals_by_priority |-> [p \in SignalPriority |-> 0]]
    /\ regs = [k \in CallbackIds |-> [f \in AllFilters |-> 0]]
    /\ dead = [k \in CallbackIds |-> -1]
    /\ accepted = 0
    /\ last_dispatch = [invoked |-> NoCalls, expected |-> NoCalls, outcome |-> "none",
                        sync_order |-> <<>>]
    /\ last_unregister = NoUnregister
    /\ stopping = FALSE
    /\ stopped_at = 0
    /\ reg_seq = <<>>
    /\ workers = 0

\* the tables after register_receptor(callback, signal_filter, is_async)
RegisterInto(tables, cb, name, is_async) ==
    LET receptor == Receptor(cb, name)
        f == FilterOf(name)
    IN
    IF f.present /\ f.signal_types # {}
    THEN IF is_async
         THEN [tables EXCEPT !.async_receptors =
                  [t \in SignalType |-> IF t \in f.signal_types
                                        THEN Append(@[t], receptor) ELSE @[t]]]
         ELSE [tables EXCEPT !.receptors =
                  [t \in SignalType |-> IF t \in f.signal_types
                                        THEN Append(@[t], receptor) ELSE @[t]]]
    ELSE IF is_async
         THEN [tables EXCEPT !.async_global_receptors = Append(@, receptor)]
         ELSE [tables EXCEPT !.global_receptors = Append(@, receptor)]

\* one list after the inner loop of unregister_receptor: the first receptor
\* with the id is popped, then the loop breaks
RemoveFirst(list, id) ==
    IF \E i \in 1..Len(list) : list[i].id = id
    THEN Pop(list, CHOOSE i \in 1..Len(list) :
                      /\ list[i].id = id
                      /\ \A j \in 1..(i - 1) : list[j].id # id)
    ELSE list

HasId(list, id) == \E i \in 1..Len(list) : list[i].id = id

\* the value unregister_receptor(receptor_id) returns: some list held the id
UnregisterResult(tables, id) ==
    \/ \E t \in SignalType :
          HasId(tables.receptors[t], id) \/ HasId(tables.async_receptors[t], id)
    \/ HasId(tables.global_receptors, id)
    \/ HasId(tables.async_global_receptors, id)

\* the tables after unregister_receptor(receptor_id)
UnregisterFrom(tables, id) ==
    [receptors |-> [t \in SignalType |-> RemoveFirst(tables.receptors[t], id)],
     async_receptors |-> [t \in SignalType |-> RemoveFirst(tables.async_receptors[t], id)],
     global_receptors |-> RemoveFirst(tables.global_receptors, id),
     async_global_receptors |-> RemoveFirst(tables.async_global_receptors, id)]

SetTables(tables) ==
    /\ receptors' = tables.receptors
    /\ async_receptors' = tables.async_receptors
    /\ global_receptors' = tables.global_receptors
    /\ async_global_receptors' = tables.async_global_receptors

EntriesOf(name) ==
    LET f == FilterOf(name)
    IN IF f.present /\ f.signal_types # {} THEN Cardinality(f.signal_types) ELSE 1

\* register_receptor
RegisterReceptor(cb, f, is_async) ==
    /\ ~WorkerRuns
    /\ TotalEntries + EntriesOf(f) <= MaxReceptors
    /\ SetTables(RegisterInto(Tables, cb, f, is_async))
    /\ regs' = [regs EXCEPT ![cb][f] = @ + 1]
    /\ dead' = [dead EXCEPT ![cb] = -1]
    /\ last_unregister' = NoUnregister
    /\ reg_seq' = IF is_async THEN reg_seq ELSE Append(reg_seq, Receptor(cb, f))
    /\ UNCHANGED <<net_is_active, processing_queue, processing_task, async_tasks, stats,
                   accepted, last_dispatch, stopping, stopped_at, workers>>
    /\ UNCHANGED <<cortexVars, immuneVars, pluginVars>>

\* unregister_receptor
UnregisterReceptor(id) ==
    /\ ~WorkerRuns
    /\ LET after == UnregisterFrom(Tables, id) IN
        /\ SetTables(after)
        /\ last_unregister' = [id |-> id,
                               repeated |-> last_unregister.called
                                            /\ last_unregister.id = id,
                               result |-> UnregisterResult(Tables, id),
                               removed |-> EntryCount(after) < TotalEntries,
                               called |-> TRUE]
    /\ regs' = [regs EXCEPT ![id] = [f \in AllFilters |-> 0]]
    /\ dead' = [dead EXCEPT ![id] = accepted]
    /\ reg_seq' = SelectSeq(reg_seq, LAMBDA r : r.id # id)
    /\ UNCHANGED <<net_is_active, processing_queue, processing_task, async_tasks, stats,
                   accepted, last_dispatch, stopping, stopped_at, workers>>
    /\ UNCHANGED <<cortexVars, immuneVars, pluginVars>>

\* a start() that lacks its guard and creates a worker on a started bus
StartUnguarded ==
    /\ ~WorkerRuns
    /\ net_is_active' = TRUE
    /\ processing_task' = "waiting"
    /\ workers' = workers + 1
    /\ UNCHANGED <<receptors, async_receptors, global_receptors, async_global_receptors,
                   processing_queue, async_tasks, stats, regs, dead, accepted,
                   last_dispatch, last_unregister, stopping, stopped_at, reg_seq>>
    /\ UNCHANGED <<cortexVars, immuneVars, pluginVars>>

\* start()
Start ==
    /\ ~WorkerRuns
    /\ IF net_is_active
       THEN UNCHANGED <<net_is_active, processing_task, workers>>
       ELSE /\ net_is_active' = TRUE
            /\ processing_task' = "waiting"
            /\ workers' = workers + 1
    /\ UNCHANGED <<receptors, async_receptors, global_receptors, async_global_receptors,
                   processing_queue, async_tasks, stats, regs, dead, accepted,
                   last_dispatch, last_unregister, stopping, stopped_at, reg_seq>>
    /\ UNCHANGED <<cortexVars, immuneVars, pluginVars>>

\* stop(), up to its await of the cancelled worker: cancelling the worker
\* cancels the receptor tasks its gather awaits, and those not yet started
\* never run
Stop ==
    /\ ~WorkerRuns
    /\ ~stopping
    /\ IF ~net_is_active
       THEN UNCHANGED <<net_is_active, processing_task, async_tasks, last_dispatch,
                        stopping, stopped_at>>
       ELSE /\ net_is_active' = FALSE
            /\ processing_task' = "cancelled"
            /\ async_tasks' = <<>>
            /\ last_dispatch' =
                  IF processing_task = "gathering"
                  THEN [last_dispatch EXCEPT !.outcome = "cancelled"]
                  ELSE last_dispatch
            /\ stopping' = TRUE
            /\ stopped_at' = accepted
    /\ UNCHANGED <<receptors, async_receptors, global_receptors, async_global_receptors,
                   processing_queue, stats, regs, dead, accepted, last_unregister,
                   reg_seq, workers>>
    /\ UNCHANGED <<cortexVars, immuneVars, pluginVars>>

\* stop() returns: the cancelled worker has ended
StopReturn ==
    /\ ~WorkerRuns
    /\ stopping
    /\ stopping' = FALSE
    /\ processing_task' = IF processing_task = "cancelled" THEN "done" ELSE processing_task
    /\ workers' = workers - 1
    /\ UNCHANGED <<stopped_at, reg_seq>>
    /\ UNCHANGED <<receptors, async_receptors, global_receptors, async_global_receptors,
                   net_is_active, processing_queue, async_tasks, stats, regs, dead,
                   accepted, last_dispatch, last_unregister>>
    /\ UNCHANGED <<cortexVars, immuneVars, pluginVars>>

\* transmit(signal)
Transmit(signal) ==
    /\ ~WorkerRuns
    /\ accepted < MaxTransmits
    /\ IF ~net_is_active
       THEN UNCHANGED <<processing_queue, accepted>>
       ELSE /\ processing_queue' =
                   Append(processing_queue, signal)
            /\ accepted' = accepted + 1
    /\ UNCHANGED <<receptors, async_receptors, global_receptors, async_global_receptors,
                   net_is_active, processing_task, async_tasks, stats, regs, dead,
                   last_dispatch, last_unregister, stopping, stopped_at, reg_seq,
                   workers>>
    /\ UNCHANGED <<cortexVars, immuneVars, pluginVars>>

\* the callbacks that raise when they are invoked
RaisingCallbacks == {"k2"}

\* a synchronous loop without its try: it ends with the first receptor
\* whose filter or callback raises
RECURSIVE SyncInvokedUntilRaise(_, _)
SyncInvokedUntilRaise(list, signal) ==
    IF list = <<>> THEN <<>>
    ELSE IF Passes(Head(list), signal) = "raise" THEN <<>>
    ELSE IF Passes(Head(list), signal) = "false"
    THEN SyncInvokedUntilRaise(Tail(list), signal)
    ELSE IF Head(list).id \in RaisingCallbacks THEN <<Head(list)>>
    ELSE <<Head(list)>> \o SyncInvokedUntilRaise(Tail(list), signal)

\* the receptors of a list the synchronous loop of _process_signal invokes: a
\* filter or a callback that raises is caught and logged, and the loop goes on
SyncInvoked(list, signal) == SelectSeq(list, LAMBDA r : Passes(r, signal) = "true")

\* the asynchronous loop of _process_signal has no try: a filter that raises
\* ends _process_signal before any receptor task is awaited
AsyncRaises(list, signal) == \E i \in 1..Len(list) : Passes(list[i], signal) = "raise"

AsyncSelected(list, signal) == SelectSeq(list, LAMBDA r : Passes(r, signal) = "true")

\* how often each callback is to be invoked for a signal, by the registrations
ExpectedCalls(signal) ==
    [k \in CallbackIds |->
        SeqSum([i \in 1..Len(BusFilterOrder) |->
                  IF Passes(Receptor(k, BusFilterOrder[i]), signal) = "true"
                  THEN regs[k][BusFilterOrder[i]] ELSE 0])]

\* a count that leaves out the counter of the priority
StatsWithoutPriority(signal) ==
    [signals_processed |-> stats.signals_processed + 1,
     signals_by_type |->
        [stats.signals_by_type EXCEPT ![signal.signal_type] = @ + 1],
     signals_by_priority |-> stats.signals_by_priority]

\* the counters after the first statements of _process_signal
StatsAfter(signal) ==
    [signals_processed |-> stats.signals_processed + 1,
     signals_by_type |->
        [stats.signals_by_type EXCEPT ![signal.signal_type] = @ + 1],
     signals_by_priority |->
        [stats.signals_by_priority EXCEPT ![signal.priority] = @ + 1]]

\* _process_queue takes the next signal and _process_signal runs up to its
\* await of the receptor tasks
ProcessSignal ==
    /\ processing_task \in {"waiting", "running"}
    /\ processing_queue # <<>>
    /\ LET signal == Head(processing_queue)
           sync_list == global_receptors \o receptors[signal.signal_type]
           async_list == async_global_receptors \o async_receptors[signal.signal_type]
           record == [invoked |-> Calls(SyncInvoked(sync_list, signal)),
                      expected |-> ExpectedCalls(signal), outcome |-> "running",
                      sync_order |-> SyncInvoked(sync_list, signal)]
       IN
        /\ processing_queue' = Tail(processing_queue)
        /\ stats' = StatsAfter(signal)
        /\ IF AsyncRaises(async_list, signal)
           THEN /\ last_dispatch' = [record EXCEPT !.outcome = "aborted"]
                /\ async_tasks' = <<>>
                /\ processing_task' = "running"
           ELSE IF AsyncSelected(async_list, signal) = <<>>
           THEN /\ last_dispatch' = [record EXCEPT !.outcome = "done"]
                /\ async_tasks' = <<>>
                /\ processing_task' = "running"
           ELSE /\ last_dispatch' = record
                /\ async_tasks' = AsyncSelected(async_list, signal)
                /\ processing_task' = "gathering"
    /\ UNCHANGED <<receptors, async_receptors, global_receptors, async_global_receptors,
                   net_is_active, regs, dead, accepted, last_unregister, stopping,
                   stopped_at, reg_seq, workers>>
    /\ UNCHANGED <<cortexVars, immuneVars, pluginVars>>

\* the receptor tasks of the gather start, in one turn of the event loop:
\* _call_async_receptor awaits each callback and catches what it raises
CallAsyncReceptors ==
    /\ processing_task = "gathering"
    /\ async_tasks # <<>>
    /\ last_dispatch' =
          [last_dispatch EXCEPT !.invoked = AddCalls(@, Calls(async_tasks))]
    /\ async_tasks' = <<>>
    /\ UNCHANGED <<receptors, async_receptors, global_receptors, async_global_receptors,
                   net_is_active, processing_queue, processing_task, stats, regs, dead,
                   accepted, last_unregister, stopping, stopped_at, reg_seq, workers>>
    /\ UNCHANGED <<cortexVars, immuneVars, pluginVars>>

\* the gather of _process_signal returns
GatherDone ==
    /\ processing_task = "gathering"
    /\ async_tasks = <<>>
    /\ last_dispatch' = [last_dispatch EXCEPT !.outcome = "done"]
    /\ processing_task' = "running"
    /\ UNCHANGED <<receptors, async_receptors, global_receptors, async_global_receptors,
                   net_is_active, processing_queue, async_tasks, stats, regs, dead,
                   accepted, last_unregister, stopping, stopped_at, reg_seq, workers>>
    /\ UNCHANGED <<cortexVars, immuneVars, pluginVars>>

\* _process_queue awaits the next signal of an empty queue
AwaitSignal ==
    /\ processing_task = "running"
    /\ processing_queue = <<>>
    /\ processing_task' = "waiting"
    /\ UNCHANGED <<receptors, async_receptors, global_receptors, async_global_receptors,
                   net_is_active, processing_queue, async_tasks, stats, regs, dead,
                   accepted, last_dispatch, last_unregister, stopping, stopped_at,
                   reg_seq, workers>>
    /\ UNCHANGED <<cortexVars, immuneVars, pluginVars>>

BusNext ==
    \/ \E cb \in CallbackIds, f \in BusFilters, is_async \in BOOLEAN :
          RegisterReceptor(cb, f, is_async)
    \/ Start
    \/ Stop
    \/ StopReturn
    \/ \E signal \in BusSignals : Transmit(signal)
    \/ ProcessSignal
    \/ CallAsyncReceptors
    \/ GatherDone
    \/ AwaitSignal

\* the bus with receptors registered and unregistered while it runs
UnregisterNext ==
    \/ \E cb \in CallbackIds, f \in BusFilters, is_async \in BOOLEAN :
          RegisterReceptor(cb, f, is_async)
    \/ \E id \in CallbackIds : UnregisterReceptor(id)
    \/ Start
    \/ \E signal \in BusSignals : Transmit(signal)
    \/ ProcessSignal
    \/ CallAsyncReceptors
    \/ GatherDone
    \/ AwaitSignal

\* the bus with receptors that filter on types and priorities
FilterNext ==
    \/ \E cb \in CallbackIds, f \in PriorityFilters, is_async \in BOOLEAN :
          RegisterReceptor(cb, f, is_async)
    \/ Start
    \/ \E signal \in PrioritySignals : Transmit(signal)
    \/ ProcessSignal
    \/ CallAsyncReceptors
    \/ GatherDone
    \/ AwaitSignal

\* the bus with receptors that filter on targets, sources and predicates
MatchNext ==
    \/ \E cb \in CallbackIds, f \in MatchFilters, is_async \in BOOLEAN :
          RegisterReceptor(cb, f, is_async)
    \/ Start
    \/ \E signal \in MatchSignals : Transmit(signal)
    \/ ProcessSignal
    \/ CallAsyncReceptors
    \/ GatherDone
    \/ AwaitSignal

-----------------------------------------------------------------------------
(* Neuron (src/src/neurons/neuron.py) and CortexBase                       *)
(* (src/src/core/central_cortex.py). A call on a component or on the       *)
(* cortex is one step: its outcome is the outcome of the steps the         *)
(* subclass supplies (_register_receptors, _activate, _deactivate).        *)

\* the components: a Sensor, whose _register_receptors registers nothing,
\* and two Actuators, whose _register_receptors registers _handle_signal
Neurons == {"sensor", "actuator1", "actuator2"}

\* the components of the class Connector
Connectors == {"connector"}

Components == Neurons \cup Connectors

RegistersReceptor(n) == n # "sensor"

ActivateOutcomes == {"ok", "register_raises", "activate_raises"}

DeactivateOutcomes == {"ok", "deactivate_raises"}

NoCall ==
    [op |-> "none", neuron |-> "sensor", was_active |-> FALSE, steps |-> <<>>,
     raised |-> FALSE, ids |-> <<>>, entries |-> 0, attempted |-> <<>>]

CortexInit ==
    /\ is_active = [n \in Components |-> FALSE]
    /\ receptor_ids = [n \in Components |-> <<>>]
    /\ neuron_errors = [n \in Components |-> 0]
    /\ connectors = {}
    /\ active_connectors = {}
    /\ neurons = {}
    /\ active_neurons = {}
    /\ activation_order = <<>>
    /\ deactivation_order = <<>>
    /\ last_call = NoCall
    /\ connection_state = "disconnected"
    /\ reconnect_task = "none"
    /\ reconnect_attempts = 0
    /\ loop_attempts = 0

\* some receptor on the bus has the id
OnBus(id) == UnregisterResult(Tables, id)

\* what a call on a component reads and writes, with the steps it ran,
\* whether it raised, and the components the cortex called activate() or
\* deactivate() on
World ==
    [is_active |-> is_active, receptor_ids |-> receptor_ids,
     errors |-> neuron_errors, active_neurons |-> active_neurons,
     tables |-> Tables, regs |-> regs, dead |-> dead, reg_seq |-> reg_seq,
     connectors |-> connectors, active_connectors |-> active_connectors,
     steps |-> <<>>, raised |-> FALSE, attempted |-> <<>>]

\* what a call on a component leaves of the components and the bus, the
\* connection of a connector apart
SetComponentsOf(w) ==
    /\ SetTables(w.tables)
    /\ is_active' = w.is_active
    /\ receptor_ids' = w.receptor_ids
    /\ neuron_errors' = w.errors
    /\ active_neurons' = w.active_neurons
    /\ connectors' = w.connectors
    /\ active_connectors' = w.active_connectors
    /\ regs' = w.regs
    /\ dead' = w.dead
    /\ reg_seq' = w.reg_seq
    /\ UNCHANGED <<net_is_active, processing_queue, processing_task, async_tasks,
                   stats, accepted, last_dispatch, last_unregister, stopping, stopped_at,
                   workers>>

\* what a call on a component leaves of the components and the bus
SetComponents(w) == SetComponentsOf(w) /\ UNCHANGED connectorVars

SetWorld(w) == SetComponents(w) /\ UNCHANGED <<immuneVars, pluginVars>>

\* an activate() that lacks its guard
NeverActive(w, n) == FALSE

\* the guard of Neuron.activate
AlreadyActive(w, n) == w.is_active[n]

\* the ids register_receptor returns to one activate() call: the callback is
\* a new bound method object, whose id differs from the id of every callback
\* the bus holds
NewReceptorIds(n, outcome) ==
    IF AlreadyActive(World, n) \/ outcome = "register_raises" \/ ~RegistersReceptor(n)
    THEN {<<>>}
    ELSE {<<k>> : k \in {id \in CallbackIds : ~OnBus(id)}}

\* Actuator._register_receptors
register_receptors(w, n, ids) ==
    IF ids = <<>> THEN w
    ELSE [w EXCEPT !.tables = RegisterInto(@, ids[1], "accepted_types", TRUE),
                   !.receptor_ids[n] = Append(@, ids[1]),
                   !.regs[ids[1]]["accepted_types"] = @ + 1,
                   !.dead[ids[1]] = -1]

\* an activate() that marks the component active before it runs the steps
activate_marked_first(w, n, outcome, ids) ==
    IF AlreadyActive(w, n) THEN w
    ELSE IF outcome = "register_raises"
    THEN [w EXCEPT !.steps = @ \o <<"_register_receptors">>,
                   !.is_active[n] = TRUE,
                   !.errors[n] = @ + 1, !.raised = TRUE]
    ELSE [register_receptors(w, n, ids) EXCEPT
             !.steps = @ \o <<"_register_receptors", "_activate">>,
             !.is_active[n] = TRUE,
             !.errors[n] = IF outcome = "activate_raises" THEN @ + 1 ELSE @,
             !.raised = (outcome = "activate_raises")]

\* Neuron.activate
activate(w, n, outcome, ids) ==
    IF AlreadyActive(w, n) THEN w
    ELSE IF outcome = "register_raises"
    THEN [w EXCEPT !.steps = @ \o <<"_register_receptors">>,
                   !.errors[n] = @ + 1, !.raised = TRUE]
    ELSE LET registered ==
                [register_receptors(w, n, ids) EXCEPT
                    !.steps = @ \o <<"_register_receptors", "_activate">>]
         IN IF outcome = "activate_raises"
            THEN [registered EXCEPT !.errors[n] = @ + 1, !.raised = TRUE]
            ELSE [registered EXCEPT !.is_active[n] = TRUE]

\* a deactivate() that unregisters the first of its receptor ids only
UnregisterFirst(tables, ids) ==
    IF ids = <<>> THEN tables ELSE UnregisterFrom(tables, Head(ids))

\* the loop of Neuron.deactivate over receptor_ids
RECURSIVE UnregisterAll(_, _)
UnregisterAll(tables, ids) ==
    IF ids = <<>> THEN tables
    ELSE UnregisterAll(UnregisterFrom(tables, Head(ids)), Tail(ids))

\* Neuron.deactivate
deactivate(w, n, outcome) ==
    IF ~w.is_active[n] THEN w
    ELSE LET ids == w.receptor_ids[n]
             unregistered == {ids[i] : i \in 1..Len(ids)}
             cleared ==
                [w EXCEPT !.tables = UnregisterAll(@, ids),
                          !.receptor_ids[n] = <<>>,
                          !.regs = [k \in CallbackIds |->
                                      IF k \in unregistered
                                      THEN [f \in AllFilters |-> 0] ELSE @[k]],
                          !.dead = [k \in CallbackIds |->
                                      IF k \in unregistered THEN accepted ELSE @[k]],
                          !.reg_seq = SelectSeq(@, LAMBDA r : r.id \notin unregistered),
                          !.steps = @ \o <<"_deactivate">>]
         IN IF outcome = "deactivate_raises"
            THEN [cleared EXCEPT !.errors[n] = @ + 1, !.raised = TRUE]
            ELSE [cleared EXCEPT !.is_active[n] = FALSE]

\* a step may fail while the model has failures left
MayFail(n, outcome) ==
    \/ outcome = "ok"
    \/ Cardinality({p \in Components \X (1..MaxErrors) : p[2] <= neuron_errors[p[1]]})
          < MaxErrors

Called(op, n, w) ==
    [op |-> op, neuron |-> n, was_active |-> is_active[n], steps |-> w.steps,
     raised |-> w.raised, ids |-> receptor_ids[n], entries |-> TotalEntries,
     attempted |-> w.attempted]

\* a call of neuron.activate()
Activate(n, outcome) ==
    /\ MayFail(n, outcome)
    /\ \E ids \in NewReceptorIds(n, outcome) :
          LET w == activate(World, n, outcome, ids)
          IN SetWorld(w) /\ last_call' = Called("activate", n, w)
    /\ UNCHANGED <<neurons, activation_order, deactivation_order>>

\* a call of neuron.deactivate()
Deactivate(n, outcome) ==
    /\ MayFail(n, outcome)
    /\ LET w == deactivate(World, n, outcome)
       IN SetWorld(w) /\ last_call' = Called("deactivate", n, w)
    /\ UNCHANGED <<neurons, activation_order, deactivation_order>>

\* CortexBase.activate_neuron
activate_neuron(w, n, outcome, ids) ==
    IF n \notin neurons \/ n \in w.active_neurons THEN w
    ELSE LET a == activate([w EXCEPT !.attempted = Append(@, n)], n, outcome, ids)
         IN IF a.raised THEN a ELSE [a EXCEPT !.active_neurons = @ \cup {n}]

\* CortexBase.deactivate_neuron
deactivate_neuron(w, n, outcome) ==
    IF n \notin neurons \/ n \notin w.active_neurons THEN w
    ELSE LET d == deactivate([w EXCEPT !.attempted = Append(@, n)], n, outcome)
         IN IF d.raised THEN d ELSE [d EXCEPT !.active_neurons = @ \ {n}]

\* a register_neuron that appends to deactivation_order
InsertLast(s, x) == Append(s, x)

\* list.insert(0, x)
InsertFirst(s, x) == <<x>> \o s

\* list.remove(x): the first occurrence of x leaves the list
ListRemove(s, x) ==
    IF \E i \in 1..Len(s) : s[i] = x
    THEN Pop(s, CHOOSE i \in 1..Len(s) : s[i] = x /\ \A j \in 1..(i - 1) : s[j] # x)
    ELSE s

\* CortexBase.register_neuron
RegisterNeuron(n) ==
    /\ IF n \in neurons
       THEN UNCHANGED <<neurons, activation_order, deactivation_order>>
       ELSE /\ neurons' = neurons \cup {n}
            /\ activation_order' = Append(activation_order, n)
            /\ deactivation_order' = InsertFirst(deactivation_order, n)
    /\ SetWorld(World)
    /\ last_call' = Called("register_neuron", n, World)

\* CortexBase.unregister_neuron
UnregisterNeuron(n, outcome) ==
    /\ MayFail(n, outcome)
    /\ LET w == IF n \in neurons /\ is_active[n]
                THEN deactivate_neuron(World, n, outcome) ELSE World
       IN /\ last_call' = Called("unregister_neuron", n, w)
          /\ IF n \notin neurons \/ w.raised
             THEN /\ SetWorld(w)
                  /\ UNCHANGED <<neurons, activation_order, deactivation_order>>
             ELSE /\ SetWorld([w EXCEPT !.active_neurons = @ \ {n}])
                  /\ neurons' = neurons \ {n}
                  /\ activation_order' = ListRemove(activation_order, n)
                  /\ deactivation_order' = ListRemove(deactivation_order, n)

\* a call of cortex.activate_neuron(neuron)
ActivateNeuron(n, outcome) ==
    /\ MayFail(n, outcome)
    /\ \E ids \in NewReceptorIds(n, outcome) :
          LET w == activate_neuron(World, n, outcome, ids)
          IN SetWorld(w) /\ last_call' = Called("activate_neuron", n, w)
    /\ UNCHANGED <<neurons, activation_order, deactivation_order>>

\* a call of cortex.deactivate_neuron(neuron)
DeactivateNeuron(n, outcome) ==
    /\ MayFail(n, outcome)
    /\ LET w == deactivate_neuron(World, n, outcome)
       IN SetWorld(w) /\ last_call' = Called("deactivate_neuron", n, w)
    /\ UNCHANGED <<neurons, activation_order, deactivation_order>>

\* the components a component declares it depends on (get_dependencies):
\* the sensor depends on an actuator, the others on nothing
DependenciesOf(n) == IF n = "sensor" THEN {"actuator1"} ELSE {}

\* the class of a component
ClassOf(n) ==
    IF n \in Connectors THEN "connector"
    ELSE IF RegistersReceptor(n) THEN "actuator" ELSE "sensor"

\* the cortex is about to activate the component, whose activate() call
\* will register a receptor
RegistersNow(w, n, outcome) ==
    /\ n \in neurons \cup w.connectors
    /\ n \notin w.active_neurons \cup w.active_connectors
    /\ ~w.is_active[n] /\ outcome # "register_raises" /\ RegistersReceptor(n)

\* the id register_receptor returns to that activate() call: the id of a new
\* bound method, which is the id of no callback the bus holds (which of the
\* free ids is immaterial)
ReceptorIdsFor(w, n, outcome) ==
    IF RegistersNow(w, n, outcome)
    THEN <<CHOOSE k \in CallbackIds : ~UnregisterResult(w.tables, k)>>
    ELSE <<>>

\* an activate_all that ends with the first activation that raises
RECURSIVE activate_all_until_raise(_, _, _)
activate_all_until_raise(w, order, outcomes) ==
    IF order = <<>> THEN w
    ELSE LET n == Head(order)
             a == activate_neuron(w, n, outcomes[n], ReceptorIdsFor(w, n, outcomes[n]))
         IN IF a.raised THEN a
            ELSE activate_all_until_raise(a, Tail(order), outcomes)

\* CortexBase.activate_all over the activation order of the cortex: what an
\* activation raises is logged and the loop goes on
RECURSIVE activate_all(_, _, _)
activate_all(w, order, outcomes) ==
    IF order = <<>> THEN w
    ELSE LET n == Head(order)
             a == activate_neuron(w, n, outcomes[n], ReceptorIdsFor(w, n, outcomes[n]))
         IN activate_all([a EXCEPT !.raised = FALSE], Tail(order), outcomes)

\* CortexBase.deactivate_all over the deactivation order of the cortex
RECURSIVE deactivate_all(_, _, _)
deactivate_all(w, order, outcomes) ==
    IF order = <<>> THEN w
    ELSE LET n == Head(order)
             d == IF n \in w.active_neurons
                  THEN deactivate_neuron(w, n, outcomes[n]) ELSE w
         IN deactivate_all([d EXCEPT !.raised = FALSE], Tail(order), outcomes)

\* CentralCortex.activate_connector
activate_connector(w, c, outcome) ==
    IF c \notin w.connectors \/ c \in w.active_connectors THEN w
    ELSE LET a == activate([w EXCEPT !.attempted = Append(@, c)], c, outcome,
                           ReceptorIdsFor(w, c, outcome))
         IN IF a.raised THEN a ELSE [a EXCEPT !.active_connectors = @ \cup {c}]

\* CentralCortex.deactivate_connector
deactivate_connector(w, c, outcome) ==
    IF c \notin w.connectors \/ c \notin w.active_connectors THEN w
    ELSE LET d == deactivate([w EXCEPT !.attempted = Append(@, c)], c, outcome)
         IN IF d.raised THEN d ELSE [d EXCEPT !.active_connectors = @ \ {c}]

\* the components of a class in an order of the cortex
OfClass(order, class) == SelectSeq(order, LAMBDA n : ClassOf(n) = class)

\* the loops of CentralCortex over its connectors (a set, which has one
\* member at most here, so that the order of the loop is determined)
RECURSIVE OverConnectors(_, _, _, _)
OverConnectors(w, todo, outcomes, op) ==
    IF todo = {} THEN w
    ELSE LET c == CHOOSE x \in todo : TRUE
             r == IF op = "activate" THEN activate_connector(w, c, outcomes[c])
                  ELSE deactivate_connector(w, c, outcomes[c])
         IN OverConnectors([r EXCEPT !.raised = FALSE], todo \ {c}, outcomes, op)

\* a CentralCortex.activate_all that begins with the connectors
connectors_first(w, outcomes) ==
    LET c == OverConnectors(w, w.connectors, outcomes, "activate")
        s == activate_all(c, OfClass(activation_order, "sensor"), outcomes)
    IN activate_all(s, OfClass(activation_order, "actuator"), outcomes)

\* CentralCortex.activate_all: sensory_cortex, motor_cortex, connectors
central_activate_all(w, outcomes) ==
    LET s == activate_all(w, OfClass(activation_order, "sensor"), outcomes)
        m == activate_all(s, OfClass(activation_order, "actuator"), outcomes)
    IN OverConnectors(m, m.connectors, outcomes, "activate")

\* CentralCortex.deactivate_all: connectors, motor_cortex, sensory_cortex
central_deactivate_all(w, outcomes) ==
    LET c == OverConnectors(w, w.active_connectors, outcomes, "deactivate")
        m == deactivate_all(c, OfClass(deactivation_order, "actuator"), outcomes)
    IN deactivate_all(m, OfClass(deactivation_order, "sensor"), outcomes)

\* the steps that fail in a call on all components fit the failures the
\* model has left, and the bus has a free id for each receptor to register
AllMayRun(outcomes) ==
    /\ Cardinality({n \in Components : outcomes[n] # "ok"})
         + Cardinality({p \in Components \X (1..MaxErrors) :
                           p[2] <= neuron_errors[p[1]]}) <= MaxErrors
    /\ Cardinality({n \in Components : RegistersNow(World, n, outcomes[n])})
         <= Cardinality({k \in CallbackIds : ~OnBus(k)})

\* a call of central_cortex.register_neuron(neuron)
CentralRegisterNeuron(n) ==
    IF ClassOf(n) = "connector"
    THEN /\ SetWorld([World EXCEPT !.connectors = @ \cup {n}])
         /\ last_call' = Called("register_neuron", n, World)
         /\ UNCHANGED <<neurons, activation_order, deactivation_order>>
    ELSE RegisterNeuron(n)

\* a call of central_cortex.activate_all()
ActivateAll(outcomes) ==
    /\ AllMayRun(outcomes)
    /\ LET w == central_activate_all(World, outcomes)
       IN SetWorld(w) /\ last_call' = Called("activate_all", "sensor", w)
    /\ UNCHANGED <<neurons, activation_order, deactivation_order>>

\* a call of central_cortex.deactivate_all()
DeactivateAll(outcomes) ==
    /\ AllMayRun(outcomes)
    /\ LET w == central_deactivate_all(World, outcomes)
       IN SetWorld(w) /\ last_call' = Called("deactivate_all", "sensor", w)
    /\ UNCHANGED <<neurons, activation_order, deactivation_order>>

\* the components, called directly
NeuronNext ==
    \/ \E n \in Neurons, outcome \in ActivateOutcomes : Activate(n, outcome)
    \/ \E n \in Neurons, outcome \in DeactivateOutcomes : Deactivate(n, outcome)

\* the components, called through their cortex
CortexNext ==
    \/ \E n \in Neurons : RegisterNeuron(n)
    \/ \E n \in Neurons, outcome \in DeactivateOutcomes : UnregisterNeuron(n, outcome)
    \/ \E n \in Neurons, outcome \in ActivateOutcomes : ActivateNeuron(n, outcome)
    \/ \E n \in Neurons, outcome \in DeactivateOutcomes : DeactivateNeuron(n, outcome)

\* the components, registered with the central cortex and called together
CentralNext ==
    \/ \E n \in Components : CentralRegisterNeuron(n)
    \/ \E outcomes \in [Components -> ActivateOutcomes] : ActivateAll(outcomes)
    \/ \E outcomes \in [Components -> DeactivateOutcomes] : DeactivateAll(outcomes)

-----------------------------------------------------------------------------
(* ImmuneSystem and with_immune_system                                     *)
(* (src/src/cerebellum/immune_system.py). Health is counted in units of    *)
(* 0.05, of which every amount the code uses is a multiple.                *)

\* the names incidents, policies and wrapped operations carry
ImmuneNeurons == {"actuator1", "actuator2"}

\* neuron_name = None
NoName == "None"

\* health 1.0, the value of a name without an entry, in units of 0.05
FullHealth == 20
\* the 0.2 a handled failure takes
FailureStep == 4
\* the 1.0 quarantine takes
QuarantineStep == 20
\* the 0.5 release gives
ReleaseStep == 10
\* the 0.8 above which heal_neuron resets the failure counter
HighHealth == 16
\* the 0.05 a success of a wrapped operation heals
SuccessHeal == 1
\* the default amount 0.1 of heal_neuron
DefaultHeal == 2
max_history_size == 100

\* the amounts heal_neuron is called with: its default, and the amount the
\* wrapper of a wrapped operation calls it with when the operation succeeded
HealAmounts == {DefaultHeal, SuccessHeal}

RecoveryConfig(strategy, max_attempts, fallback_function) ==
    [strategy |-> strategy, max_attempts |-> max_attempts,
     fallback_function |-> fallback_function]

NoConfig == RecoveryConfig("none", 0, FALSE)

\* the policies components are given
RecoveryConfigs ==
    {RecoveryConfig("ISOLATION", 2, FALSE), RecoveryConfig("DEGRADATION", 1, TRUE)}

\* the bounds wrapped operations are given: the default and three retries
RetryBounds == {0, 3}

\* members of NeuralExceptionType: the type of the incidents of one kind of
\* component, and the default type, whose handlers are called for every
\* incident
ExceptionTypes == {"ACTUATOR", "UNKNOWN"}

\* the handlers that are registered, and those that raise when called
Handlers == {"h1", "h2"}

RaisingHandlers == {"h2"}

NoHandlerCalls == [h \in Handlers |-> 0]

NotWrapped ==
    [pc |-> "idle", neuron_name |-> NoName, max_retries |-> 0, retries |-> 0,
     attempts |-> 0, handled |-> 0]

ImmuneInit ==
    /\ quarantined_neurons = {}
    /\ recovery_configs = [n \in ImmuneNeurons |-> NoConfig]
    /\ failure_counters = [n \in ImmuneNeurons |-> 0]
    /\ neuron_health = [n \in ImmuneNeurons |-> FullHealth]
    /\ exception_history = 0
    /\ wrapped = NotWrapped
    /\ failure_run = [n \in ImmuneNeurons |-> 0]
    /\ run_from_full = [n \in ImmuneNeurons |-> FALSE]
    /\ fallback_called = FALSE
    /\ exception_handlers = [t \in ExceptionTypes |-> <<>>]
    /\ handler_calls = NoHandlerCalls

\* what a call on the immune system reads and writes, whether it called a
\* fallback function, and how often it called each handler
Immune ==
    [quarantined |-> quarantined_neurons, configs |-> recovery_configs,
     counters |-> failure_counters, health |-> neuron_health,
     history |-> exception_history, fallback |-> FALSE,
     handlers |-> exception_handlers, called |-> NoHandlerCalls]

SetImmune(im) ==
    /\ quarantined_neurons' = im.quarantined
    /\ recovery_configs' = im.configs
    /\ failure_counters' = im.counters
    /\ neuron_health' = im.health
    /\ exception_history' = im.history
    /\ fallback_called' = im.fallback
    /\ exception_handlers' = im.handlers
    /\ handler_calls' = im.called
    /\ UNCHANGED <<busVars, cortexVars, pluginVars>>

Min(a, b) == IF a < b THEN a ELSE b

Max(a, b) == IF a > b THEN a ELSE b

\* an _update_neuron_health that does not clamp the new value
update_unclamped(im, name, delta) == [im EXCEPT !.health[name] = @ + delta]

\* _update_neuron_health
update_neuron_health(im, name, delta) ==
    [im EXCEPT !.health[name] = Max(0, Min(FullHealth, @ + delta))]

\* quarantine_neuron
quarantine_neuron(im, name) ==
    update_neuron_health([im EXCEPT !.quarantined = @ \cup {name}], name,
                         -QuarantineStep)

\* release_neuron
release_neuron(im, name) ==
    IF name \in im.quarantined
    THEN [update_neuron_health([im EXCEPT !.quarantined = @ \ {name}], name,
                               ReleaseStep)
            EXCEPT !.counters[name] = 0]
    ELSE im

\* a heal_neuron that lacks its guard and ends the quarantine of the
\* component it heals
heal_quarantined(im, name, amount) ==
    update_neuron_health([im EXCEPT !.quarantined = @ \ {name}], name, amount)

\* heal_neuron
heal_neuron(im, name, amount) ==
    IF name \notin im.quarantined
    THEN LET healed == update_neuron_health(im, name, amount)
         IN IF healed.health[name] > HighHealth
            THEN [healed EXCEPT !.counters[name] = 0] ELSE healed
    ELSE im

\* _apply_recovery_strategy
apply_recovery_strategy(im, name) ==
    LET config == im.configs[name]
        failure_count == im.counters[name]
    IN IF failure_count > config.max_attempts
       THEN IF config.strategy = "ISOLATION" THEN quarantine_neuron(im, name)
            ELSE IF config.strategy = "DEGRADATION" /\ config.fallback_function
            THEN [im EXCEPT !.fallback = TRUE]
            ELSE im
       ELSE im

\* the two loops of handle_exception over the handlers, those of the type
\* of the incident and those of UNKNOWN: each handler is called in a try of
\* its own, and what it raises is logged
call_handlers(im, type) ==
    LET called == im.handlers[type] \o im.handlers["UNKNOWN"]
    IN [im EXCEPT !.called =
           [h \in Handlers |->
               Cardinality({i \in 1..Len(called) : called[i] = h})]]

\* a handle_exception that leaves the health of the component alone
handle_unscored(im, name) ==
    LET recorded == [im EXCEPT !.history = Min(@ + 1, max_history_size)]
    IN IF name = NoName THEN recorded
       ELSE LET counted == [recorded EXCEPT !.counters[name] = @ + 1]
            IN IF counted.configs[name] # NoConfig
               THEN apply_recovery_strategy(counted, name)
               ELSE counted

\* handle_exception, for an incident that carries the name: the history,
\* the health and the counter of the component, and its policy
handle_exception(im, name) ==
    LET recorded == [im EXCEPT !.history = Min(@ + 1, max_history_size)]
    IN IF name = NoName THEN recorded
       ELSE LET counted ==
                   [update_neuron_health(recorded, name, -FailureStep)
                      EXCEPT !.counters[name] = @ + 1]
            IN IF counted.configs[name] # NoConfig
               THEN apply_recovery_strategy(counted, name)
               ELSE counted

\* the run of failures of the name grows with a failure and ends with any
\* other call that names it
RunAfter(op, name) ==
    [n \in ImmuneNeurons |->
        IF n # name THEN failure_run[n]
        ELSE IF op = "handle_exception" THEN failure_run[n] + 1 ELSE 0]

\* a run of failures began at full health when its first failure found the
\* component at full health
FromFullAfter(op, name) ==
    [n \in ImmuneNeurons |->
        IF n # name THEN run_from_full[n]
        ELSE IF op # "handle_exception" THEN FALSE
        ELSE IF failure_run[n] = 0 THEN neuron_health[n] = FullHealth
        ELSE run_from_full[n]]

\* a call of register_exception_handler(exception_type, handler)
RegisterExceptionHandler(type, handler) ==
    /\ Len(exception_handlers["ACTUATOR"]) + Len(exception_handlers["UNKNOWN"])
          < MaxHandlers
    /\ LET im == [Immune EXCEPT !.handlers[type] = Append(@, handler)]
       IN SetImmune(im)
    /\ UNCHANGED <<wrapped, failure_run, run_from_full>>

\* a call of handle_exception(exception), the incident being of the type
HandleException(name, type) ==
    /\ exception_history < MaxIncidents
    /\ LET im == handle_exception(call_handlers(Immune, type), name)
       IN SetImmune(im)
    /\ failure_run' = RunAfter("handle_exception", name)
    /\ run_from_full' = FromFullAfter("handle_exception", name)
    /\ UNCHANGED wrapped

\* a call of register_recovery_config(neuron_name, recovery_config)
RegisterRecoveryConfig(name, config) ==
    /\ LET im == [Immune EXCEPT !.configs[name] = config]
       IN SetImmune(im)
    /\ failure_run' = RunAfter("register_recovery_config", name)
    /\ run_from_full' = FromFullAfter("register_recovery_config", name)
    /\ UNCHANGED wrapped

\* a call of quarantine_neuron(neuron_name)
QuarantineNeuron(name) ==
    /\ LET im == quarantine_neuron(Immune, name)
       IN SetImmune(im)
    /\ failure_run' = RunAfter("quarantine_neuron", name)
    /\ run_from_full' = FromFullAfter("quarantine_neuron", name)
    /\ UNCHANGED wrapped

\* a call of release_neuron(neuron_name)
ReleaseNeuron(name) ==
    /\ LET im == release_neuron(Immune, name)
       IN SetImmune(im)
    /\ failure_run' = RunAfter("release_neuron", name)
    /\ run_from_full' = FromFullAfter("release_neuron", name)
    /\ UNCHANGED wrapped

\* a call of heal_neuron(neuron_name, amount)
HealNeuron(name, amount) ==
    /\ LET im == heal_neuron(Immune, name, amount)
       IN SetImmune(im)
    /\ failure_run' = RunAfter("heal_neuron", name)
    /\ run_from_full' = FromFullAfter("heal_neuron", name)
    /\ UNCHANGED wrapped

\* a call of an operation wrapped by
\* with_immune_system(neuron_name=name, max_retries=max_retries)
CallWrapped(name, max_retries) ==
    /\ wrapped.pc # "loop"
    /\ wrapped' = [NotWrapped EXCEPT !.pc = "loop", !.neuron_name = name,
                                     !.max_retries = max_retries]
    /\ SetImmune(Immune)
    /\ UNCHANGED <<failure_run, run_from_full>>

\* a wrapper that allows one retry more
RetriesNotExceeded(w) == w.retries > w.max_retries

\* the wrapper's test: if retries >= max_retries: raise
RetriesExhausted(w) == w.retries >= w.max_retries

\* the wrapped operation is executed and returns: the wrapper heals the
\* component and returns the result
AttemptSucceeds ==
    /\ wrapped.pc = "loop"
    /\ wrapped' = [wrapped EXCEPT !.attempts = @ + 1, !.pc = "returned"]
    /\ LET name == wrapped.neuron_name
           im == IF name # NoName THEN heal_neuron(Immune, name, SuccessHeal)
                 ELSE Immune
       IN SetImmune(im)
    /\ failure_run' = RunAfter("wrapped_success", wrapped.neuron_name)
    /\ run_from_full' = FromFullAfter("wrapped_success", wrapped.neuron_name)

\* the wrapped operation is executed and raises: the wrapper hands the
\* failure to handle_exception, then raises it or goes on to retry
AttemptFails ==
    /\ wrapped.pc = "loop"
    /\ exception_history < MaxIncidents
    /\ wrapped' = IF RetriesExhausted(wrapped)
                  THEN [wrapped EXCEPT !.attempts = @ + 1, !.handled = @ + 1,
                                       !.pc = "raised"]
                  ELSE [wrapped EXCEPT !.attempts = @ + 1, !.handled = @ + 1,
                                       !.retries = @ + 1]
    /\ LET im == handle_exception(call_handlers(Immune, "UNKNOWN"),
                                  wrapped.neuron_name)
       IN SetImmune(im)
    /\ failure_run' = RunAfter("handle_exception", wrapped.neuron_name)
    /\ run_from_full' = FromFullAfter("handle_exception", wrapped.neuron_name)

\* the immune system, called directly
ImmuneNext ==
    \/ \E name \in ImmuneNeurons \cup {NoName} : HandleException(name, "UNKNOWN")
    \/ \E name \in ImmuneNeurons, config \in RecoveryConfigs :
          RegisterRecoveryConfig(name, config)
    \/ \E name \in ImmuneNeurons : QuarantineNeuron(name)
    \/ \E name \in ImmuneNeurons : ReleaseNeuron(name)
    \/ \E name \in ImmuneNeurons, amount \in HealAmounts : HealNeuron(name, amount)

\* operations wrapped by with_immune_system, whose components are
\* quarantined and released meanwhile
RetryNext ==
    \/ \E name \in ImmuneNeurons : QuarantineNeuron(name)
    \/ \E name \in ImmuneNeurons : ReleaseNeuron(name)
    \/ \E name \in ImmuneNeurons \cup {NoName}, max_retries \in RetryBounds :
          CallWrapped(name, max_retries)
    \/ AttemptSucceeds
    \/ AttemptFails

\* incidents of a component with a policy, given to the handlers
HandlersNext ==
    \/ \E type \in ExceptionTypes, handler \in Handlers :
          RegisterExceptionHandler(type, handler)
    \/ \E type \in ExceptionTypes : HandleException("actuator1", type)
    \/ \E config \in RecoveryConfigs : RegisterRecoveryConfig("actuator1", config)

\* components whose receptors are on the running bus while the immune
\* system quarantines and releases them: the bus and the immune system are
\* separate objects, and neither _process_signal nor _call_async_receptor
\* calls the immune system
FaultNext ==
    \/ \E n \in ImmuneNeurons, outcome \in ActivateOutcomes : Activate(n, outcome)
    \/ \E name \in ImmuneNeurons : QuarantineNeuron(name)
    \/ \E name \in ImmuneNeurons : ReleaseNeuron(name)
    \/ Start
    \/ \E signal \in BusSignals : Transmit(signal)
    \/ ProcessSignal
    \/ CallAsyncReceptors
    \/ GatherDone
    \/ AwaitSignal

-----------------------------------------------------------------------------
(* PluginManager (src/src/neural_plasticity/plugin_manager.py).            *)
(* load_plugin calls itself for the dependencies of a plugin: the calls in *)
(* progress are a stack, and a step is what the innermost call does up to  *)
(* its next nested call or its return.                                     *)

PluginIds == {"A", "B", "C"}

\* a version "x.y.0" as the number 10 * x + y
Version(major, minor) == 10 * major + minor

\* an entry of PluginMetadata.dependencies: id -> constraint
Dependency(id, op, version) == [id |-> id, op |-> op, version |-> version]

\* the metadata of a discovered plugin, with the class of the component
\* that its module defines (the first subclass of Neuron load_plugin finds)
PluginMetadata(version, neuron_class, dependencies, enabled) ==
    [present |-> TRUE, version |-> version, neuron_class |-> neuron_class,
     dependencies |-> dependencies, enabled |-> enabled]

NoPlugin == [present |-> FALSE, version |-> 0, neuron_class |-> "neuron",
             dependencies |-> <<>>, enabled |-> FALSE]

\* what discover_plugins finds in the plugin directories: two plugins that
\* depend on each other next to a plain Neuron without dependencies; a chain
\* of three;
\* plugins whose dependency is older than they require; a plugin whose
\* dependency was not found, next to a disabled one
Catalogues ==
    {[A |-> PluginMetadata(Version(1, 0), "actuator",
                           <<Dependency("B", ">=", Version(1, 0))>>, TRUE),
      B |-> PluginMetadata(Version(1, 0), "sensor",
                           <<Dependency("A", "==", Version(1, 0))>>, TRUE),
      C |-> PluginMetadata(Version(1, 0), "neuron", <<>>, TRUE)],
     [A |-> PluginMetadata(Version(1, 0), "actuator",
                           <<Dependency("B", ">=", Version(1, 0))>>, TRUE),
      B |-> PluginMetadata(Version(1, 2), "sensor",
                           <<Dependency("C", "==", Version(1, 0))>>, TRUE),
      C |-> PluginMetadata(Version(1, 0), "connector", <<>>, TRUE)],
     [A |-> PluginMetadata(Version(0, 9), "actuator", <<>>, TRUE),
      B |-> PluginMetadata(Version(1, 0), "sensor",
                           <<Dependency("A", ">=", Version(1, 0))>>, TRUE),
      C |-> PluginMetadata(Version(1, 0), "neuron",
                           <<Dependency("A", "==", Version(1, 0))>>, TRUE)],
     [A |-> PluginMetadata(Version(1, 0), "actuator",
                           <<Dependency("B", ">=", Version(1, 0))>>, TRUE),
      B |-> NoPlugin,
      C |-> PluginMetadata(Version(1, 0), "neuron", <<>>, FALSE)]}

\* the lists of the configuration: an empty set stands for an empty list
Config(enabled, disabled) == [enabled_plugins |-> enabled, disabled_plugins |-> disabled]

\* the configurations a plugin manager is constructed with: the default, a
\* list of disabled plugins, and a list of enabled plugins
Configs == {Config({}, {}), Config({}, {"B"}), Config({"A", "C"}, {})}

\* PluginManager.__init__
PluginManager(c) ==
    /\ plugins = [id \in PluginIds |-> NoPlugin]
    /\ loaded_plugins = <<>>
    /\ cortex_of = [id \in PluginIds |-> "none"]
    /\ load_stack = <<>>
    /\ load_result = "none"
    /\ load_call = "none"
    /\ plugin_config = c
    /\ enabled_todo = <<>>

PluginInit == PluginManager(Config({}, {}))

\* a test that finds no plugin loaded
NeverLoaded(id) == FALSE

\* plugin_id in self.loaded_plugins
IsLoaded(id) == \E i \in 1..Len(loaded_plugins) : loaded_plugins[i] = id

\* a check that finds every version compatible
always_compatible(dependency, available) == TRUE

\* _check_version_compatibility
check_version_compatibility(dependency, available) ==
    IF dependency.op = ">=" THEN available >= dependency.version
    ELSE available = dependency.version

\* the category CentralCortex registers a component of the class in
CategoryOf(neuron_class) ==
    CASE neuron_class = "sensor" -> "sensory_cortex"
      [] neuron_class = "actuator" -> "motor_cortex"
      [] neuron_class = "connector" -> "connectors"
      [] OTHER -> "none"

\* a load_plugin call that has just been entered
Frame(id) == [plugin_id |-> id, pc |-> "start", todo |-> <<>>]

\* a call of discover_plugins(), with what it finds
DiscoverPlugins(catalogue) ==
    /\ load_stack = <<>>
    /\ plugins' = catalogue
    /\ UNCHANGED <<loaded_plugins, cortex_of, load_stack, load_result, load_call>>
    /\ UNCHANGED <<plugin_config, enabled_todo>>
    /\ UNCHANGED <<busVars, cortexVars, immuneVars>>

\* a call of load_plugin(plugin_id)
LoadPlugin(id) ==
    /\ load_stack = <<>>
    /\ load_stack' = <<Frame(id)>>
    /\ load_result' = "running"
    /\ load_call' = id
    /\ UNCHANGED <<loaded_plugins, cortex_of, plugins>>
    /\ UNCHANGED <<plugin_config, enabled_todo>>
    /\ UNCHANGED <<busVars, cortexVars, immuneVars>>

\* a return after which the call that awaits the innermost call goes on to
\* its next dependency whatever the value is
ReturnAndGoOn(value) ==
    IF Len(load_stack) = 1
    THEN /\ load_stack' = <<>>
         /\ load_result' = value
    ELSE /\ load_stack' =
              [SubSeq(load_stack, 1, Len(load_stack) - 1)
                 EXCEPT ![Len(load_stack) - 1].todo = Tail(@)]
         /\ UNCHANGED load_result

\* the innermost call returns the value: None ends the call that awaits it
\* as well, an instance lets it go on to its next dependency
Return(value) ==
    IF value = "None" \/ Len(load_stack) = 1
    THEN /\ load_stack' = <<>>
         /\ load_result' = value
    ELSE /\ load_stack' =
              [SubSeq(load_stack, 1, Len(load_stack) - 1)
                 EXCEPT ![Len(load_stack) - 1].todo = Tail(@)]
         /\ UNCHANGED load_result

Innermost == load_stack[Len(load_stack)]

\* the innermost call up to the loop over the dependencies
LoadEnter ==
    /\ load_stack # <<>>
    /\ Innermost.pc = "start"
    /\ LET id == Innermost.plugin_id IN
         IF ~plugins[id].present THEN Return("None")
         ELSE IF IsLoaded(id) THEN Return("instance")
         ELSE IF ~plugins[id].enabled THEN Return("None")
         ELSE /\ load_stack' = [load_stack EXCEPT ![Len(load_stack)] =
                     [@ EXCEPT !.pc = "deps",
                               !.todo = plugins[id].dependencies]]
              /\ UNCHANGED load_result
    /\ UNCHANGED <<plugins, loaded_plugins, cortex_of, load_call>>
    /\ UNCHANGED <<plugin_config, enabled_todo>>
    /\ UNCHANGED <<busVars, cortexVars, immuneVars>>

\* a pass of the loop over the dependencies: the nested call is made with
\* nothing that remembers the plugins whose loading is in progress, and the
\* interpreter ends the nesting with a RecursionError that no frame catches
LoadCheckDependency ==
    /\ load_stack # <<>>
    /\ Innermost.pc = "deps"
    /\ Innermost.todo # <<>>
    /\ LET dep == Head(Innermost.todo) IN
         IF ~plugins[dep.id].present THEN Return("None")
         ELSE IF ~check_version_compatibility(dep, plugins[dep.id].version)
         THEN Return("None")
         ELSE IF ~IsLoaded(dep.id)
         THEN IF Len(load_stack) < MaxDepth
              THEN /\ load_stack' = Append(load_stack, Frame(dep.id))
                   /\ UNCHANGED load_result
              ELSE /\ load_stack' = <<>>
                   /\ load_result' = "RecursionError"
         ELSE /\ load_stack' = [load_stack EXCEPT ![Len(load_stack)].todo = Tail(@)]
              /\ UNCHANGED load_result
    /\ UNCHANGED <<plugins, loaded_plugins, cortex_of, load_call>>
    /\ UNCHANGED <<plugin_config, enabled_todo>>
    /\ UNCHANGED <<busVars, cortexVars, immuneVars>>

LoadOutcomes == {"ok", "fails"}

\* the component a plugin's module defines, by its name
ComponentOf(id) ==
    CASE id = "A" -> "actuator1"
      [] id = "B" -> "sensor"
      [] id = "C" -> "connector"

\* the registration of the new instance by load_plugin: with the
\* sensory_cortex or the motor_cortex (CortexBase.register_neuron), or with
\* CentralCortex.register_neuron, which registers a Connector and logs an
\* error for any other class
RegisterInstance(n, category) ==
    /\ is_active' = [is_active EXCEPT ![n] = FALSE]
    /\ receptor_ids' = [receptor_ids EXCEPT ![n] = <<>>]
    /\ neuron_errors' = [neuron_errors EXCEPT ![n] = 0]
    /\ IF category \in {"sensory_cortex", "motor_cortex"} /\ n \notin neurons
       THEN /\ neurons' = neurons \cup {n}
            /\ activation_order' = Append(activation_order, n)
            /\ deactivation_order' = InsertFirst(deactivation_order, n)
       ELSE UNCHANGED <<neurons, activation_order, deactivation_order>>
    /\ connectors' = IF category = "connectors" THEN connectors \cup {n} ELSE connectors
    /\ UNCHANGED <<active_neurons, active_connectors, last_call, connectorVars>>

\* a load_plugin that stores the plugin as loaded before it imports the
\* module
LoadModuleStoredFirst(outcome) ==
    /\ load_stack # <<>>
    /\ Innermost.pc = "deps"
    /\ Innermost.todo = <<>>
    /\ LET id == Innermost.plugin_id IN
         /\ loaded_plugins' = Append(loaded_plugins, id)
         /\ IF outcome = "ok"
            THEN /\ cortex_of' = [cortex_of EXCEPT
                                     ![id] = CategoryOf(plugins[id].neuron_class)]
                 /\ RegisterInstance(ComponentOf(id),
                                     CategoryOf(plugins[id].neuron_class))
                 /\ Return("instance")
            ELSE /\ Return("None")
                 /\ UNCHANGED <<cortex_of, cortexVars>>
    /\ UNCHANGED <<plugins, load_call>>
    /\ UNCHANGED <<plugin_config, enabled_todo>>
    /\ UNCHANGED <<busVars, immuneVars>>

\* the rest of the innermost call: the module is imported, the component
\* created and registered with the cortex, and the instance stored
LoadModule(outcome) ==
    /\ load_stack # <<>>
    /\ Innermost.pc = "deps"
    /\ Innermost.todo = <<>>
    /\ LET id == Innermost.plugin_id IN
         IF outcome = "ok"
         THEN /\ cortex_of' = [cortex_of EXCEPT
                                  ![id] = CategoryOf(plugins[id].neuron_class)]
              /\ RegisterInstance(ComponentOf(id), CategoryOf(plugins[id].neuron_class))
              /\ loaded_plugins' = Append(loaded_plugins, id)
              /\ Return("instance")
         ELSE /\ Return("None")
              /\ UNCHANGED <<loaded_plugins, cortex_of, cortexVars>>
    /\ UNCHANGED <<plugins, load_call>>
    /\ UNCHANGED <<plugin_config, enabled_todo>>
    /\ UNCHANGED <<busVars, immuneVars>>

\* an unregister_neuron that removes the instance without deactivating it
unregister_without_deactivate(w, n, category, outcome) ==
    IF category = "connectors"
    THEN [w EXCEPT !.connectors = @ \ {n}, !.active_connectors = @ \ {n}]
    ELSE IF category = "none" THEN w
    ELSE [w EXCEPT !.active_neurons = @ \ {n}]

\* the unregister_neuron call of unload_plugin on the instance: of its
\* cortex (CortexBase.unregister_neuron, up to the removal from the orders)
\* or of the central cortex, for a Connector or a component of another class
unregister_instance(w, n, category, outcome) ==
    IF category = "connectors"
    THEN IF n \notin w.connectors THEN w
         ELSE LET d == IF w.is_active[n] THEN deactivate_connector(w, n, outcome)
                       ELSE w
              IN IF d.raised THEN d
                 ELSE [d EXCEPT !.connectors = @ \ {n},
                                !.active_connectors = @ \ {n}]
    ELSE IF category = "none" \/ n \notin neurons THEN w
    ELSE LET d == IF w.is_active[n] THEN deactivate_neuron(w, n, outcome) ELSE w
         IN IF d.raised THEN d ELSE [d EXCEPT !.active_neurons = @ \ {n}]

\* a call of unload_plugin(plugin_id): what unregister_neuron raises is
\* caught and logged, and the call returns False
UnloadPlugin(id, outcome) ==
    /\ load_stack = <<>>
    /\ MayFail(ComponentOf(id), outcome)
    /\ load_call' = id
    /\ LET n == ComponentOf(id)
           w == IF IsLoaded(id)
                THEN unregister_instance(World, n, cortex_of[id], outcome)
                ELSE World
       IN /\ SetComponents(w)
          /\ last_call' = Called("unload_plugin", n, w)
          /\ IF ~IsLoaded(id) \/ w.raised
             THEN /\ load_result' = "False"
                  /\ UNCHANGED <<loaded_plugins, cortex_of, neurons, activation_order,
                                 deactivation_order>>
             ELSE /\ load_result' = "True"
                  /\ loaded_plugins' = ListRemove(loaded_plugins, id)
                  /\ cortex_of' = [cortex_of EXCEPT ![id] = "none"]
                  /\ neurons' = IF cortex_of[id] = "connectors" THEN neurons
                                ELSE neurons \ {n}
                  /\ activation_order' =
                        IF cortex_of[id] = "connectors" THEN activation_order
                        ELSE ListRemove(activation_order, n)
                  /\ deactivation_order' =
                        IF cortex_of[id] = "connectors" THEN deactivation_order
                        ELSE ListRemove(deactivation_order, n)
    /\ UNCHANGED <<plugins, load_stack>>
    /\ UNCHANGED <<plugin_config, enabled_todo>>
    /\ UNCHANGED immuneVars

\* the orders in which the scan of the plugin directories finds the plugins
ScanOrders ==
    {order \in [1..Cardinality(PluginIds) -> PluginIds] :
        \A i, j \in 1..Cardinality(PluginIds) : order[i] = order[j] => i = j}

\* _build_dependency_graph: for each plugin found, the dependencies that
\* were found as well
build_dependency_graph(found) ==
    [id \in {p \in PluginIds : found[p].present} |->
        {found[id].dependencies[i].id : i \in 1..Len(found[id].dependencies)}
            \cap {p \in PluginIds : found[p].present}]

\* visit(node) of _get_load_order, and its loop over the dependencies of a
\* node: marks is [visited, temp_mark, order]
RECURSIVE visit(_, _, _, _)
visit(graph, scan, marks, todo) ==
    IF todo = <<>> THEN marks
    ELSE LET node == Head(todo) IN
         IF node \in marks.temp_mark \/ node \in marks.visited
         THEN visit(graph, scan, marks, Tail(todo))
         ELSE LET deps == IF node \in DOMAIN graph
                          THEN SelectSeq(scan, LAMBDA p : p \in graph[node])
                          ELSE <<>>
                  below == visit(graph, scan,
                                 [marks EXCEPT !.temp_mark = @ \cup {node}], deps)
              IN visit(graph, scan,
                       [visited |-> below.visited \cup {node},
                        temp_mark |-> below.temp_mark \ {node},
                        order |-> Append(below.order, node)],
                       Tail(todo))

\* _get_load_order: the nodes of the graph are visited in the order of
\* their insertion, and the list of the visits is returned reversed
get_load_order(graph, scan) ==
    LET order == visit(graph, scan,
                       [visited |-> {}, temp_mark |-> {}, order |-> <<>>],
                       SelectSeq(scan, LAMBDA p : p \in DOMAIN graph)).order
    IN [i \in 1..Len(order) |-> order[Len(order) + 1 - i]]

\* initialize(), up to the loop of load_enabled_plugins: discover_plugins,
\* _build_dependency_graph and the load order
Initialize(catalogue, scan) ==
    /\ plugins = [id \in PluginIds |-> NoPlugin]
    /\ load_stack = <<>>
    /\ plugins' = catalogue
    /\ enabled_todo' = get_load_order(build_dependency_graph(catalogue), scan)
    /\ UNCHANGED <<loaded_plugins, cortex_of, load_stack, load_result, load_call,
                   plugin_config>>
    /\ UNCHANGED <<busVars, cortexVars, immuneVars>>

\* the test of load_enabled_plugins on a plugin of the load order
IsEnabled(id) ==
    /\ plugins[id].enabled
    /\ plugin_config.enabled_plugins = {} \/ id \in plugin_config.enabled_plugins
    /\ id \notin plugin_config.disabled_plugins

\* a pass of the loop of load_enabled_plugins, up to the load_plugin call it
\* awaits; a RecursionError of the last load_plugin call ends the loop
LoadNextEnabled ==
    /\ load_stack = <<>>
    /\ enabled_todo # <<>>
    /\ IF load_result = "RecursionError"
       THEN /\ enabled_todo' = <<>>
            /\ UNCHANGED <<load_stack, load_result, load_call>>
       ELSE /\ enabled_todo' = Tail(enabled_todo)
            /\ IF IsEnabled(Head(enabled_todo))
               THEN /\ load_stack' = <<Frame(Head(enabled_todo))>>
                    /\ load_result' = "running"
                    /\ load_call' = Head(enabled_todo)
               ELSE UNCHANGED <<load_stack, load_result, load_call>>
    /\ UNCHANGED <<plugins, loaded_plugins, cortex_of, plugin_config>>
    /\ UNCHANGED <<busVars, cortexVars, immuneVars>>

\* the plugins that initialize() loads
EnabledNext ==
    \/ \E catalogue \in Catalogues, scan \in ScanOrders : Initialize(catalogue, scan)
    \/ LoadNextEnabled
    \/ LoadEnter
    \/ LoadCheckDependency
    \/ \E outcome \in LoadOutcomes : LoadModule(outcome)

PluginNext ==
    \/ \E catalogue \in Catalogues : DiscoverPlugins(catalogue)
    \/ \E id \in PluginIds : LoadPlugin(id)
    \/ LoadEnter
    \/ LoadCheckDependency
    \/ \E outcome \in LoadOutcomes : LoadModule(outcome)

\* plugins loaded and unloaded while the central cortex activates the
\* components it holds
UnloadNext ==
    \/ \E catalogue \in Catalogues : DiscoverPlugins(catalogue)
    \/ \E id \in PluginIds : LoadPlugin(id)
    \/ LoadEnter
    \/ LoadCheckDependency
    \/ \E outcome \in LoadOutcomes : LoadModule(outcome)
    \/ \E id \in PluginIds, outcome \in DeactivateOutcomes : UnloadPlugin(id, outcome)
    \/ load_stack = <<>> /\ ActivateAll([n \in Components |-> "ok"])

-----------------------------------------------------------------------------
-----------------------------------------------------------------------------
(* Connector (src/src/connectors/base_connector.py), with the _connect and  *)
(* _disconnect of MaiBotCoreConnector. A task reference is modelled by the  *)
(* state of the task it refers to: "none" is None, "running" a task that    *)
(* has not finished, "done" a finished task.                                *)

ConnectionStates == {"disconnected", "connecting", "connected", "error"}

Connection ==
    [state |-> connection_state, task |-> reconnect_task,
     attempts |-> reconnect_attempts, made |-> loop_attempts]

SetConnection(c) ==
    /\ connection_state' = c.state
    /\ reconnect_task' = c.task
    /\ reconnect_attempts' = c.attempts
    /\ loop_attempts' = c.made

\* asyncio.create_task(self._reconnect_loop()), with the first statement of
\* the loop
create_reconnect_task(c) ==
    [c EXCEPT !.task = "running", !.attempts = 0, !.made = 0]

\* Connector._update_connection_state
update_connection_state(c, active, new_state) ==
    LET moved == [c EXCEPT !.state = new_state]
    IN IF /\ c.state = "connected" /\ new_state # "connected"
          /\ active /\ max_reconnect_attempts > 0 /\ c.task = "none"
       THEN create_reconnect_task(moved)
       ELSE moved

\* MaiBotCoreConnector._connect
connect(c, active, connects) ==
    LET connecting == update_connection_state(c, active, "connecting")
    IN update_connection_state(connecting, active,
                               IF connects THEN "connected" ELSE "error")

\* Connector._activate
connector_activate(c, connects) ==
    LET tried == connect(c, FALSE, connects)
    IN IF tried.state # "connected" /\ max_reconnect_attempts > 0
       THEN create_reconnect_task(tried)
       ELSE tried

\* Connector._deactivate
connector_deactivate(c) ==
    update_connection_state([c EXCEPT !.task = "none"], TRUE, "disconnected")

\* one pass of the while loop of Connector._reconnect_loop
reconnect_loop(c, active, connects) ==
    IF ~active \/ c.state = "connected" THEN [c EXCEPT !.task = "done"]
    ELSE IF c.attempts >= max_reconnect_attempts THEN [c EXCEPT !.task = "done"]
    ELSE LET tried == connect([c EXCEPT !.attempts = @ + 1, !.made = @ + 1],
                              active, connects)
         IN IF connects THEN [tried EXCEPT !.attempts = 0, !.task = "done"]
            ELSE tried

\* a call of activate() on the connector
ConnectorActivate(outcome, connects) ==
    /\ ~is_active["connector"]
    /\ MayFail("connector", outcome)
    /\ \E ids \in NewReceptorIds("connector", outcome) :
          LET w == activate(World, "connector", outcome, ids)
          IN /\ SetComponentsOf(w)
             /\ last_call' = Called("activate", "connector", w)
             /\ IF w.raised THEN UNCHANGED connectorVars
                ELSE SetConnection(connector_activate(Connection, connects))
    /\ UNCHANGED <<neurons, activation_order, deactivation_order, immuneVars,
                   pluginVars>>

\* a call of deactivate() on the connector
ConnectorDeactivate ==
    /\ is_active["connector"]
    /\ LET w == deactivate(World, "connector", "ok")
       IN SetComponentsOf(w) /\ last_call' = Called("deactivate", "connector", w)
    /\ SetConnection(connector_deactivate(Connection))
    /\ UNCHANGED <<neurons, activation_order, deactivation_order, immuneVars,
                   pluginVars>>

\* the connection ends: the message loop or the heartbeat loop calls
\* _update_connection_state
UpdateConnectionState(new_state) ==
    /\ connection_state = "connected"
    /\ SetConnection(update_connection_state(Connection, is_active["connector"],
                                             new_state))
    /\ UNCHANGED <<busVars, is_active, receptor_ids, neuron_errors, neurons,
                   active_neurons, activation_order, deactivation_order, connectors,
                   active_connectors, last_call, immuneVars, pluginVars>>

\* the reconnect task runs one pass of its loop
ReconnectLoop(connects) ==
    /\ reconnect_task = "running"
    /\ SetConnection(reconnect_loop(Connection, is_active["connector"], connects))
    /\ UNCHANGED <<busVars, is_active, receptor_ids, neuron_errors, neurons,
                   active_neurons, activation_order, deactivation_order, connectors,
                   active_connectors, last_call, immuneVars, pluginVars>>

ConnectorNext ==
    \/ \E outcome \in {"ok", "register_raises"}, connects \in BOOLEAN :
          ConnectorActivate(outcome, connects)
    \/ ConnectorDeactivate
    \/ \E new_state \in {"disconnected", "error"} : UpdateConnectionState(new_state)
    \/ \E connects \in BOOLEAN : ReconnectLoop(connects)

Init == BusInit /\ CortexInit /\ ImmuneInit /\ PluginInit

Next ==
    BusNext \/ UnregisterNext \/ NeuronNext \/ CortexNext \/ ImmuneNext \/ RetryNext
        \/ PluginNext \/ FilterNext \/ CentralNext \/ FaultNext
        \/ UnloadNext \/ MatchNext \/ EnabledNext \/ HandlersNext
        \/ ConnectorNext

Spec == Init /\ [][Next]_vars

SpecBus == Init /\ [][BusNext]_vars

SpecUnregister == Init /\ [][UnregisterNext]_vars

SpecNeuron == Init /\ [][NeuronNext]_vars

SpecCortex == Init /\ [][CortexNext]_vars

SpecImmune == Init /\ [][ImmuneNext]_vars

SpecRetry == Init /\ [][RetryNext]_vars

SpecPlugin == Init /\ [][PluginNext]_vars

SpecFilter == Init /\ [][FilterNext]_vars

SpecCentral == Init /\ [][CentralNext]_vars

SpecFault == Init /\ [][FaultNext]_vars

SpecUnload == Init /\ [][UnloadNext]_vars

SpecMatch == Init /\ [][MatchNext]_vars

SpecHandlers == Init /\ [][HandlersNext]_vars

SpecConnector == Init /\ [][ConnectorNext]_vars

\* a plugin manager constructed with one of the configurations
EnabledInit ==
    BusInit /\ CortexInit /\ ImmuneInit /\ \E c \in Configs : PluginManager(c)

SpecEnabled == EnabledInit /\ [][EnabledNext]_vars

-----------------------------------------------------------------------------
(* Claims about the signal bus.                                            *)

\* C1: when the worker is through with an event (its dispatch returned, or
\* ended in the error handler of _process_queue), every callback was invoked
\* for it once per registration whose filter matches the event or that has no
\* filter, and no other callback was invoked.
C1_EachMatchingReceptorInvokedOnce ==
    last_dispatch.outcome \in {"done", "aborted"}
        => last_dispatch.invoked = last_dispatch.expected

\* C2: a callback whose id was unregistered (and not registered again) is
\* invoked for no event that was accepted after the unregister_receptor call.
C2_NoInvocationAfterUnregister ==
    \A id \in CallbackIds :
        (/\ last_dispatch.outcome # "none"
         /\ dead[id] >= 0
         /\ stats.signals_processed > dead[id])
            => last_dispatch.invoked[id] = 0

\* C3: unregister_receptor returns true exactly when it removed a receptor,
\* and a second call with the same id, with no register_receptor call in
\* between, returns false.
C3_SecondUnregisterReturnsFalse ==
    last_unregister.called =>
        /\ last_unregister.result = last_unregister.removed
        /\ last_unregister.repeated => ~last_unregister.result

-----------------------------------------------------------------------------
(* Claims about the components and their cortex.                           *)

\* C4: activate() on a component that is already active changes nothing: the
\* bus holds as many receptors as before, receptor_ids is what it was, no
\* step of the activation ran (neither _register_receptors nor _activate),
\* the call returned normally and the component is still active.
C4_ActivateOnActiveChangesNothing ==
    (last_call.op = "activate" /\ last_call.was_active) =>
        /\ TotalEntries = last_call.entries
        /\ receptor_ids[last_call.neuron] = last_call.ids
        /\ last_call.steps = <<>>
        /\ ~last_call.raised
        /\ is_active[last_call.neuron]

\* an active Actuator that holds a receptor was activated again while the
\* bus had room for another receptor
C4_Witness ==
    /\ last_call.op = "activate"
    /\ last_call.was_active
    /\ RegistersReceptor(last_call.neuron)
    /\ Len(last_call.ids) = 1
    /\ \E id \in CallbackIds : ~OnBus(id)

\* C5: when deactivate() was called on an active component, receptor_ids is
\* empty afterwards and no receptor with an id the component owned is left on
\* the bus, whether _deactivate returned or raised.
C5_DeactivateUnregistersAll ==
    (last_call.op = "deactivate" /\ last_call.was_active) =>
        /\ receptor_ids[last_call.neuron] = <<>>
        /\ \A i \in 1..Len(last_call.ids) : ~OnBus(last_call.ids[i])

\* deactivate() was called on an active component that owned two receptor
\* ids, and _deactivate raised
C5_Witness ==
    /\ last_call.op = "deactivate"
    /\ last_call.was_active
    /\ last_call.raised
    /\ Len(last_call.ids) = 2

Reverse(s) == [i \in 1..Len(s) |-> s[Len(s) + 1 - i]]

\* C6: deactivation_order is the reverse of activation_order, and the
\* components in them are the registered ones, each once.
C6_DeactivationOrderIsReverse ==
    /\ deactivation_order = Reverse(activation_order)
    /\ {activation_order[i] : i \in 1..Len(activation_order)} = neurons
    /\ Len(activation_order) = Cardinality(neurons)

\* a component was unregistered and two registered components are left
C6_Witness ==
    /\ last_call.op = "unregister_neuron"
    /\ last_call.neuron \notin neurons
    /\ Len(activation_order) = 2

-----------------------------------------------------------------------------
(* Claims about the immune system.                                         *)

\* C7: a component with an ISOLATION policy of threshold max_attempts = N is
\* quarantined once handle_exception has handled K >= N failures naming it in
\* a row (with no other call naming the component in between, the
\* registration of the policy included).
C7_QuarantinedAtThreshold ==
    \A n \in ImmuneNeurons :
        (/\ recovery_configs[n].strategy = "ISOLATION"
         /\ failure_run[n] >= recovery_configs[n].max_attempts)
            => n \in quarantined_neurons

\* C8: a quarantined component leaves quarantine only in a step that is a
\* release_neuron call for it: not by handle_exception, heal_neuron (with the
\* default amount, or the amount of a wrapped operation's success),
\* register_recovery_config or quarantine_neuron, for whichever component.
C8_QuarantinedUntilReleased ==
    [][\A n \in ImmuneNeurons :
          (n \in quarantined_neurons /\ n \notin quarantined_neurons')
              => ReleaseNeuron(n)]_vars

\* a component that was quarantined by a quarantine_neuron call is
\* quarantined after a handle_exception call that named it
C8_Witness ==
    \E n \in ImmuneNeurons :
        /\ n \in quarantined_neurons
        /\ recovery_configs[n] = NoConfig
        /\ failure_run[n] = 1
        /\ failure_counters[n] = 1

\* C9: a load_plugin call ends by returning after a bounded number of nested
\* calls, also when the dependencies of the discovered plugins form a cycle:
\* no plugin is being loaded twice in the nesting of the calls in progress,
\* so that the nesting is no deeper than the number of the plugins, and the
\* call does not end with the RecursionError of the interpreter.
C9_LoadPluginTerminatesOnCycle ==
    /\ \A i, j \in 1..Len(load_stack) :
           i < j => load_stack[i].plugin_id # load_stack[j].plugin_id
    /\ Len(load_stack) <= Cardinality(PluginIds)
    /\ load_result # "RecursionError"

\* C10: a wrapped operation is executed at most max_retries + 1 times; when
\* the wrapper raised, the operation was executed max_retries + 1 times and
\* each of its failures was handed to handle_exception once; when it
\* returned, the last execution was the only one that succeeded; while it
\* retries, each execution so far failed and was handled once.
C10_RetriesAreBounded ==
    /\ wrapped.attempts <= wrapped.max_retries + 1
    /\ wrapped.pc = "raised" =>
          /\ wrapped.attempts = wrapped.max_retries + 1
          /\ wrapped.handled = wrapped.attempts
    /\ wrapped.pc = "returned" => wrapped.handled = wrapped.attempts - 1
    /\ wrapped.pc = "loop" =>
          /\ wrapped.handled = wrapped.attempts
          /\ wrapped.retries = wrapped.attempts

\* an operation wrapped with max_retries = 3 failed four times and the wrapper raised
C10_Witness ==
    /\ wrapped.pc = "raised"
    /\ wrapped.max_retries = 3
    /\ wrapped.attempts = 4
    /\ wrapped.handled = 4

\* the next failure of the component is one of the first 4 of a run of
\* failures that began at full health
InRunFromFull(n) ==
    /\ failure_run[n] < 4
    /\ IF failure_run[n] = 0 THEN neuron_health[n] = FullHealth
       ELSE run_from_full[n]

\* a step that handles a failure of the component
FailureOf(n) == failure_run'[n] = failure_run[n] + 1

\* C11 (as stated): each of 4 consecutive handled failures of a component
\* that was at full health leaves its health strictly lower than before and
\* its failure counter higher by exactly 1.
C11_HealthStrictlyLower ==
    [][\A n \in ImmuneNeurons :
          (InRunFromFull(n) /\ FailureOf(n)) =>
              /\ neuron_health'[n] < neuron_health[n]
              /\ failure_counters'[n] = failure_counters[n] + 1]_vars

\* C11 (amended): each of 4 consecutive handled failures of a component that
\* was at full health raises its failure counter by exactly 1 and never
\* raises its health; the health is lower by the fixed step when the
\* component is not quarantined after the failure, and strictly lower unless
\* the isolation policy had quarantined it at an earlier failure of the run,
\* which left its health at 0.
C11_HealthLowerUntilQuarantined ==
    [][\A n \in ImmuneNeurons :
          (InRunFromFull(n) /\ FailureOf(n)) =>
              /\ failure_counters'[n] = failure_counters[n] + 1
              /\ neuron_health'[n] <= neuron_health[n]
              /\ n \notin quarantined_neurons' =>
                     neuron_health'[n] = neuron_health[n] - FailureStep
              /\ n \notin quarantined_neurons =>
                     neuron_health'[n] < neuron_health[n]]_vars

\* four consecutive failures from full health, none of which quarantined the
\* component
C11_Witness ==
    \E n \in ImmuneNeurons :
        /\ failure_run[n] = 4
        /\ run_from_full[n]
        /\ n \notin quarantined_neurons
        /\ neuron_health[n] = FullHealth - 4 * FailureStep
        /\ failure_counters[n] = 4

\* the discovered version of the dependency does not satisfy its constraint
Incompatible(dep) ==
    /\ plugins[dep.id].present
    /\ IF dep.op = ">=" THEN plugins[dep.id].version < dep.version
       ELSE plugins[dep.id].version # dep.version

\* C12: a load_plugin call that comes to a dependency whose discovered
\* version does not satisfy its exact or ">=" constraint ends there with
\* None: no nested call loads that dependency, nothing is added to the
\* loaded set and no component is registered with the cortex; and a plugin
\* is added to the loaded set only when every dependency it declares is
\* discovered in a version that satisfies its constraint.
C12_IncompatibleDependencyFailsLoad ==
    [][/\ (/\ load_stack # <<>>
           /\ Innermost.pc = "deps"
           /\ Innermost.todo # <<>>
           /\ Incompatible(Head(Innermost.todo)))
          => /\ load_stack' = <<>>
             /\ load_result' = "None"
             /\ loaded_plugins' = loaded_plugins
             /\ cortex_of' = cortex_of
       /\ \A id \in PluginIds :
             (~IsLoaded(id) /\ IsLoaded(id)')
                 => \A i \in 1..Len(plugins[id].dependencies) :
                        ~Incompatible(plugins[id].dependencies[i])]_vars

\* load_plugin("B") returned None where B requires A ">=1.0.0" and the
\* discovered A is 0.9.0; neither is loaded or registered
C12_Witness ==
    /\ load_call = "B"
    /\ load_result = "None"
    /\ plugins["A"].present /\ plugins["A"].version = Version(0, 9)
    /\ plugins["B"].dependencies = <<Dependency("A", ">=", Version(1, 0))>>
    /\ loaded_plugins = <<>>
    /\ \A id \in PluginIds : cortex_of[id] = "none"

\* the registrations of the callback whose filter holds the type of the
\* signal and a minimum priority that is not above its priority
AtOrAboveThreshold(k, signal) ==
    SeqSum([i \in 1..Len(BusFilterOrder) |->
              LET f == FilterOf(BusFilterOrder[i])
              IN IF /\ signal.signal_type \in f.signal_types
                    /\ signal.priority >= f.min_priority
                 THEN regs[k][BusFilterOrder[i]] ELSE 0])

\* C13: for a filter on types and an event of one of its types, match is
\* true exactly when the priority of the event is at least the minimum
\* priority of the filter (LOW < NORMAL < HIGH < URGENT); a MOTOR event of
\* priority HIGH from "cmd" without target matches the filter on MOTOR with
\* minimum NORMAL and does not match the filter on SENSORY; and the dispatch
\* of an event hands it to each callback once per registration whose filter
\* holds its type and a minimum priority that is not above its priority.
C13_DeliveredAtOrAboveMinPriority ==
    /\ \A t \in SignalType, minp \in SignalPriority, p \in SignalPriority :
          (match(SignalFilter({t, "CORE"}, {}, {}, minp, "none"),
                 Signal(t, <<"c", "m", "d">>, NoTarget, p)) = "true") <=> (p >= minp)
    /\ match(FilterOf("motor_normal"),
             Signal("MOTOR", <<"c", "m", "d">>, NoTarget, HIGH)) = "true"
    /\ match(FilterOf("sensory"),
             Signal("MOTOR", <<"c", "m", "d">>, NoTarget, HIGH)) = "false"
    /\ [][(processing_queue # <<>> /\ processing_queue' = Tail(processing_queue))
             => \A k \in CallbackIds :
                   last_dispatch'.invoked[k] + Calls(async_tasks')[k]
                       = AtOrAboveThreshold(k, Head(processing_queue))]_vars

\* the MOTOR event of priority HIGH was dispatched to k1, registered with
\* the filter on MOTOR with minimum NORMAL, and not to k2, registered with
\* the filter on SENSORY
C13_Witness ==
    /\ regs["k1"]["motor_normal"] = 1
    /\ regs["k2"]["sensory"] = 1
    /\ stats.signals_processed = 1
    /\ stats.signals_by_type["MOTOR"] = 1
    /\ stats.signals_by_priority[HIGH] = 1
    /\ last_dispatch.outcome = "done"
    /\ last_dispatch.invoked = [k \in CallbackIds |-> IF k = "k1" THEN 1 ELSE 0]

\* a step in which the worker invokes a callback for the event it dispatches:
\* the synchronous loop of _process_signal, or the start of the tasks of its
\* gather
InvokesReceptor ==
    \/ /\ processing_queue # <<>>
       /\ processing_queue' = Tail(processing_queue)
       /\ last_dispatch'.invoked # NoCalls
    \/ /\ processing_task = "gathering" /\ processing_task' = "gathering"
       /\ async_tasks # <<>> /\ async_tasks' = <<>>

\* C14: stop() drops the events still queued: the events are dispatched in
\* the order of their acceptance, and once a stop() has returned no callback
\* is invoked for an event that transmit() had accepted before that stop()
\* was called, also when start() has started the bus again.
C14_StopDropsQueuedEvents ==
    [][(~stopping /\ InvokesReceptor) => stats.signals_processed' > stopped_at]_vars

\* a step in which the worker takes the next event from the queue
TakesEvent ==
    /\ processing_queue # <<>>
    /\ processing_queue' = Tail(processing_queue)

\* C15: events are dispatched in the order of their acceptance, one after
\* the other: the event the worker takes is the oldest accepted event that
\* was not dispatched yet, and when it takes it the dispatch of the event
\* before is over with every callback invoked for that event once per
\* matching registration, the asynchronous ones awaited; so a receptor that
\* matches both events sees the earlier one first.
C15_StrictFifoDispatch ==
    [][TakesEvent =>
          /\ stats.signals_processed' = accepted - Len(processing_queue')
          /\ async_tasks = <<>>
          /\ last_dispatch.outcome # "running"
          /\ last_dispatch.invoked = last_dispatch.expected]_vars

\* C16: a callback that raises during a dispatch does not abort it: when the
\* dispatch of an event ends, every callback, raising or not, was invoked for
\* it exactly once per matching registration; a dispatch is aborted only by
\* the predicate of a filter that raises, never by a callback; no accepted
\* event is lost, and the worker of an active bus is alive to dispatch the
\* events accepted later.
C16_RaisingCallbackDoesNotAbort ==
    /\ last_dispatch.outcome = "done" =>
          last_dispatch.invoked = last_dispatch.expected
    /\ last_dispatch.outcome = "aborted" =>
          \E k \in CallbackIds : regs[k]["raising"] > 0
    /\ Len(processing_queue) = accepted - stats.signals_processed
    /\ (net_is_active /\ ~stopping) =>
          processing_task \in {"waiting", "running", "gathering"}

\* a raising callback and another one were both invoked for the first
\* event, and the worker has dispatched the second event to both as well
C16_Witness ==
    /\ regs["k2"]["none"] = 1
    /\ regs["k1"]["none"] = 1
    /\ global_receptors # <<>>
    /\ global_receptors[1].id \in RaisingCallbacks
    /\ stats.signals_processed = 2
    /\ last_dispatch.outcome = "done"
    /\ last_dispatch.invoked = [k \in CallbackIds |-> 1]

\* C17: an activation that is attempted runs _register_receptors, then
\* _activate, then marks the component active; when _register_receptors
\* raises, _activate does not run; the call raises exactly when one of the
\* two steps raised, and then the component is not active and the cortex
\* does not hold it in active_neurons; otherwise the component is active and
\* in active_neurons.
C17_FailedActivationLeavesInactive ==
    (last_call.op = "activate_neuron" /\ last_call.steps # <<>>) =>
        LET n == last_call.neuron IN
        /\ ~last_call.was_active
        /\ last_call.steps \in {<<"_register_receptors">>,
                                <<"_register_receptors", "_activate">>}
        /\ last_call.steps = <<"_register_receptors">> => last_call.raised
        /\ last_call.raised <=> ~is_active[n]
        /\ n \in active_neurons <=> is_active[n]

\* activate_neuron raised after _register_receptors and _activate had run:
\* the receptor is registered, the component is inactive and not in
\* active_neurons
C17_Witness ==
    /\ last_call.op = "activate_neuron"
    /\ last_call.steps = <<"_register_receptors", "_activate">>
    /\ last_call.raised
    /\ receptor_ids[last_call.neuron] # <<>>
    /\ ~is_active[last_call.neuron]
    /\ last_call.neuron \notin active_neurons

\* C18: a deactivation whose _deactivate step raises is logged and returns
\* normally: neither Neuron.deactivate() nor the deactivate_neuron() of the
\* cortex raises to its caller.
C18_DeactivationFailureNotRaised ==
    (/\ last_call.op \in {"deactivate", "deactivate_neuron"}
     /\ last_call.steps = <<"_deactivate">>)
        => ~last_call.raised

\* the components of a sequence, as a set
Members(seq) == {seq[i] : i \in 1..Len(seq)}

\* C19: activate_all() calls activate() on every registered component that
\* is not active, those of a cortex in its activation_order, and
\* deactivate_all() calls deactivate() on every active component, those of a
\* cortex in its deactivation_order; each goes on with the next component
\* when one raises and returns normally; a component whose own steps did not
\* fail ends active (resp. inactive) whatever the others did.
C19_AllContinuePastFailures ==
    [][/\ last_call'.op = "activate_all" =>
            /\ ~last_call'.raised
            /\ \A class \in {"sensor", "actuator"} :
                  OfClass(last_call'.attempted, class)
                     = SelectSeq(OfClass(activation_order, class),
                                 LAMBDA n : n \notin active_neurons)
            /\ Members(OfClass(last_call'.attempted, "connector"))
                  = connectors \ active_connectors
            /\ \A n \in Members(last_call'.attempted) :
                  neuron_errors'[n] = neuron_errors[n] =>
                     /\ is_active'[n]
                     /\ n \in active_neurons' \cup active_connectors'
       /\ last_call'.op = "deactivate_all" =>
            /\ ~last_call'.raised
            /\ \A class \in {"sensor", "actuator"} :
                  OfClass(last_call'.attempted, class)
                     = SelectSeq(OfClass(deactivation_order, class),
                                 LAMBDA n : n \in active_neurons)
            /\ Members(OfClass(last_call'.attempted, "connector")) = active_connectors
            /\ \A n \in Members(last_call'.attempted) :
                  neuron_errors'[n] = neuron_errors[n] =>
                     /\ ~is_active'[n]
                     /\ n \notin active_neurons' \cup active_connectors']_vars

\* an activate_all() in which the activation of one actuator failed and the
\* activation of the actuator after it succeeded
C19_Witness ==
    /\ last_call.op = "activate_all"
    /\ \E i, j \in 1..Len(last_call.attempted) :
          /\ i < j
          /\ ClassOf(last_call.attempted[i]) = "actuator"
          /\ ClassOf(last_call.attempted[j]) = "actuator"
          /\ ~is_active[last_call.attempted[i]]
          /\ is_active[last_call.attempted[j]]

\* the place of a class in the activation of the whole system
Rank(n) ==
    CASE ClassOf(n) = "sensor" -> 1
      [] ClassOf(n) = "actuator" -> 2
      [] ClassOf(n) = "connector" -> 3

\* C20: CentralCortex.activate_all() calls activate() on the sensors, then
\* on the actuators, then on the connectors, so that every sensor and
\* actuator is attempted before the first connector; deactivate_all() calls
\* deactivate() on the connectors, then on the actuators, then on the
\* sensors.
C20_CategoriesInOrder ==
    /\ last_call.op = "activate_all" =>
          \A i, j \in 1..Len(last_call.attempted) :
              i < j => Rank(last_call.attempted[i]) <= Rank(last_call.attempted[j])
    /\ last_call.op = "deactivate_all" =>
          \A i, j \in 1..Len(last_call.attempted) :
              i < j => Rank(last_call.attempted[i]) >= Rank(last_call.attempted[j])

\* a deactivate_all() that deactivated a connector, an actuator and a sensor
\* which an activate_all() had activated
C20_Witness ==
    /\ last_call.op = "deactivate_all"
    /\ {ClassOf(n) : n \in Members(last_call.attempted)}
          = {"sensor", "actuator", "connector"}
    /\ \A n \in Members(last_call.attempted) : ~is_active[n]

-----------------------------------------------------------------------------
(* Claims about the bus and the immune system together.                    *)

\* a step in which the worker invokes the callback with the id for the
\* event it dispatches
InvokedNow(k) ==
    \/ /\ TakesEvent
       /\ last_dispatch'.invoked[k] > 0
    \/ /\ processing_task = "gathering" /\ processing_task' = "gathering"
       /\ async_tasks # <<>> /\ async_tasks' = <<>>
       /\ \E i \in 1..Len(async_tasks) : async_tasks[i].id = k

\* the component registered the receptor with the id and has not
\* unregistered it
Owns(n, k) == \E i \in 1..Len(receptor_ids[n]) : receptor_ids[n][i] = k

\* C21: while a component is quarantined, from the call that quarantines it
\* to the release_neuron call for it, the bus invokes none of its receptors
\* for any event it dispatches.
C21_QuarantinedNotDispatchedTo ==
    [][\A n \in ImmuneNeurons, k \in CallbackIds :
          (n \in quarantined_neurons /\ Owns(n, k)) => ~InvokedNow(k)]_vars

\* C30: for each receptor callback that raises while an event is
\* dispatched, the bus swallows the exception and handle_exception is called
\* once, so that the history of the immune system and the failure counter of
\* the component that owns the receptor grow by one.
C30_ReceptorFailureReported ==
    [][\A k \in RaisingCallbacks :
          InvokedNow(k) =>
             /\ exception_history' = exception_history + 1
             /\ \A n \in ImmuneNeurons :
                   Owns(n, k) => failure_counters'[n] = failure_counters[n] + 1]_vars

\* C22: heal_neuron(component, amount) on a quarantined component changes
\* neither its health nor its failure counter nor its quarantine; on a
\* component that is not quarantined it raises the health by the amount, up
\* to 1.0 at most, and sets the failure counter to 0 when the resulting
\* health is above 0.8, else leaves the counter; the health of every
\* component is within [0, 1] in every reachable state.
C22_HealRaisesCappedHealth ==
    /\ [](\A n \in ImmuneNeurons : neuron_health[n] \in 0..FullHealth)
    /\ [][\A n \in ImmuneNeurons, amount \in HealAmounts :
             HealNeuron(n, amount) =>
                /\ quarantined_neurons' = quarantined_neurons
                /\ IF n \in quarantined_neurons
                   THEN /\ neuron_health'[n] = neuron_health[n]
                        /\ failure_counters'[n] = failure_counters[n]
                   ELSE /\ neuron_health'[n]
                              = IF neuron_health[n] + amount > FullHealth
                                THEN FullHealth ELSE neuron_health[n] + amount
                        /\ failure_counters'[n]
                              = IF neuron_health'[n] > HighHealth
                                THEN 0 ELSE failure_counters[n]]_vars

\* a component that a failure brought to 0.8 and a heal_neuron call with
\* the default amount brought above it, which reset its failure counter,
\* next to a quarantined component that heal_neuron left at health 0
C22_Witness ==
    \E n, q \in ImmuneNeurons :
        /\ n \notin quarantined_neurons
        /\ neuron_health[n] = FullHealth - FailureStep + DefaultHeal
        /\ failure_counters[n] = 0
        /\ q \in quarantined_neurons
        /\ neuron_health[q] = 0

\* C29: for a component with a DEGRADATION policy of threshold
\* max_attempts = N and a fallback function, handle_exception calls the
\* fallback when the failure it handles is the N-th or a later one of a run
\* of failures of the component (with no other call naming the component in
\* between), and does not call it while the run is shorter than N.
C29_FallbackAfterConsecutiveFailures ==
    [][\A n \in ImmuneNeurons :
          (/\ failure_run'[n] = failure_run[n] + 1
           /\ recovery_configs[n].strategy = "DEGRADATION"
           /\ recovery_configs[n].fallback_function)
              => (fallback_called' <=> failure_run'[n] >= recovery_configs[n].max_attempts)]_vars

-----------------------------------------------------------------------------
(* Claims about the counters of the bus.                                   *)

\* the members of SignalPriority in the order of the enumeration
SignalPriorityOrder == <<LOW, NORMAL, HIGH, URGENT>>

\* C28: in every reachable state of the bus, signals_processed is the
\* number of events the worker has taken from the queue, and it is the sum
\* of the counters by type and the sum of the counters by priority; so after
\* n accepted events of one type and priority were all dispatched, each of
\* the three counters for them is n.
C28_CountersAgree ==
    /\ stats.signals_processed = accepted - Len(processing_queue)
    /\ stats.signals_processed
          = SeqSum([i \in 1..Len(SignalTypeOrder) |->
                      stats.signals_by_type[SignalTypeOrder[i]]])
    /\ stats.signals_processed
          = SeqSum([i \in 1..Len(SignalPriorityOrder) |->
                      stats.signals_by_priority[SignalPriorityOrder[i]]])

\* two events of type MOTOR and priority HIGH were accepted and dispatched
C28_Witness ==
    /\ accepted = 2
    /\ processing_queue = <<>>
    /\ stats.signals_processed = 2
    /\ stats.signals_by_type["MOTOR"] = 2
    /\ stats.signals_by_priority[HIGH] = 2

-----------------------------------------------------------------------------
(* Claims about the central cortex and the dependencies of components.     *)

\* C27: when a registered component declares a dependency on another
\* registered component, activate_all() calls activate() on the dependency
\* before it calls activate() on the component that depends on it, whatever
\* the order of their registration and their classes.
C27_DependenciesActivatedFirst ==
    last_call.op = "activate_all" =>
        \A i, j \in 1..Len(last_call.attempted) :
            last_call.attempted[j] \in DependenciesOf(last_call.attempted[i]) => j < i

-----------------------------------------------------------------------------
(* Claims about loading and unloading plugins.                             *)

\* the plugin has a dependency on the other plugin in its descriptor
DependsOn(id, other) ==
    \E i \in 1..Len(plugins[id].dependencies) : plugins[id].dependencies[i].id = other

\* C25: an unload_plugin(id) that returns True leaves the component of the
\* plugin inactive, in no category of the cortex (neither a member nor in
\* an active set nor in the activation or the deactivation order) and id
\* out of the loaded set, and leaves every other plugin loaded or not as it
\* was, the plugins that depend on id included; unload_plugin of an id that
\* is not loaded returns False and changes nothing.
C25_UnloadRemovesOnlyThePlugin ==
    [][\A id \in PluginIds :
          (\E outcome \in DeactivateOutcomes : UnloadPlugin(id, outcome)) =>
             LET n == ComponentOf(id) IN
             /\ ~IsLoaded(id) =>
                   /\ load_result' = "False"
                   /\ UNCHANGED <<loaded_plugins, cortex_of, plugins>>
                   /\ UNCHANGED <<is_active, receptor_ids, neurons, active_neurons,
                                  activation_order, deactivation_order, connectors,
                                  active_connectors>>
                   /\ UNCHANGED <<receptors, async_receptors, global_receptors,
                                  async_global_receptors>>
             /\ (IsLoaded(id) /\ load_result' = "True") =>
                   /\ ~is_active'[n]
                   /\ n \notin neurons' \cup active_neurons'
                   /\ n \notin connectors' \cup active_connectors'
                   /\ n \notin Members(activation_order') \cup Members(deactivation_order')
                   /\ id \notin Members(loaded_plugins')
                   /\ \A other \in PluginIds \ {id} :
                         other \in Members(loaded_plugins')
                            <=> other \in Members(loaded_plugins)
             /\ load_result' \in {"True", "False"}]_vars

\* unload_plugin has unloaded a plugin whose component was active, and a
\* plugin that depends on it is loaded still
C25_Witness ==
    /\ last_call.op = "unload_plugin"
    /\ last_call.was_active
    /\ last_call.neuron = ComponentOf(load_call)
    /\ load_result = "True"
    /\ ~IsLoaded(load_call)
    /\ \E other \in PluginIds : IsLoaded(other) /\ DependsOn(other, load_call)

\* C26: whenever a load_plugin call records a plugin as loaded, every
\* dependency in the descriptor of the plugin is in the loaded set already,
\* so that it was recorded before the plugin: the dependencies are loaded
\* first, by the nested calls, whatever the order of the load_plugin and
\* unload_plugin calls before.
C26_DependenciesLoadedFirst ==
    [][\A id \in PluginIds :
          (id \notin Members(loaded_plugins) /\ id \in Members(loaded_plugins')) =>
             /\ loaded_plugins' = Append(loaded_plugins, id)
             /\ \A other \in PluginIds :
                   DependsOn(id, other) => other \in Members(loaded_plugins)]_vars

\* load_plugin("A") has loaded the chain of three plugins, the dependency
\* of the dependency first
C26_Witness ==
    /\ load_call = "A"
    /\ load_result = "instance"
    /\ loaded_plugins = <<"C", "B", "A">>
    /\ DependsOn("A", "B") /\ DependsOn("B", "C")

\* the first step of the load_plugin(id) call that was just made
EntersLoad(id) == load_stack = <<Frame(id)>> /\ load_stack' # load_stack

\* the step leaves the loaded set and what the cortex holds as they are
NothingLoaded ==
    UNCHANGED <<loaded_plugins, cortex_of, neurons, activation_order,
                deactivation_order, connectors>>

\* C23: load_plugin(id) for a plugin that is in the loaded set returns the
\* existing instance and changes nothing: no component is created, nothing
\* is registered with the cortex again, and the loaded set is as it was;
\* load_plugin(id) for a plugin that is not loaded and whose descriptor has
\* enabled = false returns None and loads nothing.
C23_LoadedIsNoOpDisabledFails ==
    [][\A id \in PluginIds :
          EntersLoad(id) =>
             /\ id \in Members(loaded_plugins) =>
                   /\ load_stack' = <<>> /\ load_result' = "instance"
                   /\ NothingLoaded
             /\ (id \notin Members(loaded_plugins)
                    /\ plugins[id].present /\ ~plugins[id].enabled) =>
                   /\ load_stack' = <<>> /\ load_result' = "None"
                   /\ NothingLoaded]_vars

\* C23, for the plugins the catalogue holds: load_plugin(id) for a plugin
\* that is in the catalogue and in the loaded set returns the existing
\* instance and changes nothing; for a plugin of the catalogue that is not
\* loaded and whose descriptor has enabled = false it returns None and loads
\* nothing; for an id that is not in the catalogue it returns None and
\* changes nothing, also when a plugin of that id is loaded.
C23_KnownLoadedIsNoOp ==
    [][\A id \in PluginIds :
          EntersLoad(id) =>
             /\ (plugins[id].present /\ id \in Members(loaded_plugins)) =>
                   /\ load_stack' = <<>> /\ load_result' = "instance"
                   /\ NothingLoaded
             /\ (id \notin Members(loaded_plugins)
                    /\ plugins[id].present /\ ~plugins[id].enabled) =>
                   /\ load_stack' = <<>> /\ load_result' = "None"
                   /\ NothingLoaded
             /\ ~plugins[id].present =>
                   /\ load_stack' = <<>> /\ load_result' = "None"
                   /\ NothingLoaded]_vars

\* load_plugin("C") has returned the instance of a plugin that was loaded
\* before the two plugins that depend on it
C23_Witness ==
    /\ load_call = "C"
    /\ load_result = "instance"
    /\ plugins["C"].present
    /\ loaded_plugins = <<"C", "B", "A">>

\* a step with which the load_plugin call in progress fails: it returns
\* None to its caller, or ends with an exception
LoadFails ==
    /\ load_stack # <<>>
    /\ load_stack' = <<>>
    /\ load_result' \in {"None", "RecursionError"}

\* a load_plugin call in progress leaves the plugins that are loaded as
\* they are
KeepsLoaded ==
    load_stack # <<>> =>
        \A p \in Members(loaded_plugins) :
            /\ p \in Members(loaded_plugins')
            /\ cortex_of'[p] = cortex_of[p]

\* C24: whenever load_plugin(id) fails, id is not in the loaded set
\* afterwards and no component of id is registered with the cortex, and
\* the plugins that were loaded before the call are loaded still.
C24_FailedLoadLeavesAbsent ==
    [][/\ KeepsLoaded
       /\ LoadFails =>
             /\ load_call \notin Members(loaded_plugins')
             /\ cortex_of'[load_call] = "none"
             /\ ComponentOf(load_call) \notin neurons' \cup connectors']_vars

\* C24, for the plugins that were not loaded: whenever load_plugin(id)
\* fails for an id that was not in the loaded set, id is not in the loaded
\* set afterwards and no component of id is registered with the cortex;
\* whenever it fails, the plugins that were loaded before the call, id
\* included, are loaded still and registered as they were.
C24_FailedLoadLoadsNothing ==
    [][/\ KeepsLoaded
       /\ (LoadFails /\ load_call \notin Members(loaded_plugins)) =>
             /\ load_call \notin Members(loaded_plugins')
             /\ cortex_of'[load_call] = "none"
             /\ ComponentOf(load_call) \notin neurons' \cup connectors'
       /\ (LoadFails /\ load_call \in Members(loaded_plugins)) =>
             /\ ~plugins[load_call].present
             /\ NothingLoaded]_vars

\* load_plugin("A") has failed after its nested call had loaded the
\* dependency of A's dependency: the import of the dependency failed
C24_Witness ==
    /\ load_call = "A"
    /\ load_result = "None"
    /\ DependsOn("A", "B") /\ DependsOn("B", "C")
    /\ loaded_plugins = <<"C">>
    /\ cortex_of["C"] = "connectors"

\* C36: the predicate of a filter that raises while an event is matched is
\* isolated like a failing receptor: no dispatch is ended by it, and when
\* the dispatch of an event is over while a receptor with such a filter is
\* registered, every other callback was invoked for the event exactly once
\* per matching registration, synchronous or asynchronous.
C36_RaisingPredicateIsolated ==
    /\ last_dispatch.outcome # "aborted"
    /\ (/\ last_dispatch.outcome = "done"
        /\ \E k \in CallbackIds : regs[k]["raising"] > 0)
          => \A k \in CallbackIds : last_dispatch.invoked[k] = last_dispatch.expected[k]

\* C37: a component whose activation failed after its receptors were
\* registered, and whose next activate() succeeded, holds no duplicate
\* registration: when the tasks of a dispatch start, at most one of them
\* calls a receptor of an active component, and a component that a
\* deactivate() left inactive has no receptor on the bus.
C37_NoDuplicateRegistration ==
    /\ [][(/\ processing_task = "gathering" /\ processing_task' = "gathering"
           /\ async_tasks # <<>> /\ async_tasks' = <<>>)
            => \A n \in ImmuneNeurons :
                  is_active[n] =>
                     Cardinality({i \in 1..Len(async_tasks) :
                                     Owns(n, async_tasks[i].id)}) <= 1]_vars
    /\ [](\A n \in ImmuneNeurons :
             (last_call.op = "deactivate" /\ last_call.neuron = n /\ ~is_active[n])
                => receptor_ids[n] = <<>>)

\* the conditions of a filter, each one applying when the filter gives it:
\* the type, a source pattern, a target pattern, the minimum priority and
\* the predicate
MatchesAll(f, signal) ==
    /\ f.signal_types # {} => signal.signal_type \in f.signal_types
    /\ f.source_patterns # {} =>
          \E p \in f.source_patterns : Contains(signal.source, p)
    /\ f.target_patterns # {} =>
          \E p \in f.target_patterns : Contains(signal.target, p)
    /\ f.min_priority # 0 => signal.priority >= f.min_priority
    /\ f.custom_filter # "reject"

\* C33: SignalFilter.match is true exactly when every condition the filter
\* gives holds for the event, so a filter with target patterns matches no
\* event without a target: the receptors the worker invokes for the event it
\* takes, and those whose tasks it is to await, are the receptors of its
\* lists whose filter has all its conditions met.
C33_MatchIffAllConditions ==
    [][TakesEvent =>
          LET signal == Head(processing_queue)
              met(r) == MatchesAll(FilterOf(r.filter), signal)
          IN /\ last_dispatch'.invoked =
                   Calls(SelectSeq(global_receptors \o receptors[signal.signal_type],
                                   met))
             /\ async_tasks' =
                   SelectSeq(async_global_receptors
                                \o async_receptors[signal.signal_type], met)]_vars

\* the categories of the central cortex that hold the component: the
\* sensory_cortex holds Sensors, the motor_cortex Actuators
CategoriesHolding(n) ==
    {c \in {"sensory_cortex", "motor_cortex", "connectors"} :
        \/ c = "sensory_cortex" /\ n \in neurons /\ ClassOf(n) = "sensor"
        \/ c = "motor_cortex" /\ n \in neurons /\ ClassOf(n) = "actuator"
        \/ c = "connectors" /\ n \in connectors}

\* C39: the component of every plugin in loaded_plugins is registered with
\* the central cortex in exactly one category, whatever its class is.
C39_LoadedIsRegisteredOnce ==
    \A id \in Members(loaded_plugins) :
        Cardinality(CategoriesHolding(ComponentOf(id))) = 1

\* in what was found, the plugin has a dependency on the other plugin, and
\* both were found
Requires(found, id, other) ==
    /\ found[id].present /\ found[other].present
    /\ \E i \in 1..Len(found[id].dependencies) : found[id].dependencies[i].id = other

\* the dependencies of the plugins found form a cycle
Cyclic(found) ==
    \E a, b, c \in PluginIds :
        \/ Requires(found, a, a)
        \/ Requires(found, a, b) /\ Requires(found, b, a)
        \/ Requires(found, a, b) /\ Requires(found, b, c) /\ Requires(found, c, a)

\* C32: _get_load_order returns, for every dependency graph, a list that
\* holds every plugin found exactly once, and for a graph without cycle
\* every plugin of the list comes after all the plugins it depends on.
C32_LoadOrderIsTopological ==
    [][\A catalogue \in Catalogues, scan \in ScanOrders :
          Initialize(catalogue, scan) =>
             /\ Members(enabled_todo') = {p \in PluginIds : catalogue[p].present}
             /\ Len(enabled_todo') = Cardinality(Members(enabled_todo'))
             /\ ~Cyclic(catalogue) =>
                   \A i, j \in 1..Len(enabled_todo') :
                      Requires(catalogue, enabled_todo'[i], enabled_todo'[j]) => j < i]_vars

\* the configuration keeps load_enabled_plugins from loading the plugin
ConfiguredOut(id) ==
    \/ id \in plugin_config.disabled_plugins
    \/ plugin_config.enabled_plugins # {} /\ id \notin plugin_config.enabled_plugins

\* C38: when load_enabled_plugins() has returned, no plugin that is in the
\* configured disabled_plugins, or that is missing from a configured
\* enabled_plugins that is not empty, is in loaded_plugins, also when an
\* enabled plugin depends on it.
C38_ConfiguredOutNeverLoaded ==
    (/\ plugins # [id \in PluginIds |-> NoPlugin]
     /\ enabled_todo = <<>>
     /\ load_stack = <<>>)
        => \A id \in PluginIds : ConfiguredOut(id) => id \notin Members(loaded_plugins)

\* how often the handler is registered, over all types
Registrations(h) ==
    Cardinality({p \in ExceptionTypes \X (1..MaxHandlers) :
                    /\ p[2] <= Len(exception_handlers[p[1]])
                    /\ exception_handlers[p[1]][p[2]] = h})

\* C35: a handle_exception call, whatever the type of the incident, invokes
\* each handler that is registered once at most once and each handler
\* registered for the type of the incident or for UNKNOWN at least once,
\* raising or not, and runs the recovery policy of the component: a
\* component whose failures exceed the max_attempts of its ISOLATION policy
\* is quarantined.
C35_HandlersInvokedOnce ==
    [][\A type \in ExceptionTypes :
          HandleException("actuator1", type) =>
             /\ \A h \in Handlers : Registrations(h) = 1 => handler_calls'[h] <= 1
             /\ \A h \in Handlers :
                   (\E t \in {type, "UNKNOWN"} :
                       \E i \in 1..Len(exception_handlers[t]) :
                          exception_handlers[t][i] = h) => handler_calls'[h] >= 1
             /\ (/\ recovery_configs["actuator1"].strategy = "ISOLATION"
                 /\ failure_counters'["actuator1"]
                       > recovery_configs["actuator1"].max_attempts)
                   => "actuator1" \in quarantined_neurons']_vars

\* C31: for each event it dispatches, the worker invokes the matching
\* synchronous receptors in the order of their register_receptor calls,
\* whether a receptor is global or indexed by types.
C31_SyncInRegistrationOrder ==
    [][TakesEvent =>
          last_dispatch'.sync_order =
             SelectSeq(reg_seq,
                       LAMBDA r : Passes(r, Head(processing_queue)) = "true")]_vars

\* C34: under every interleaving of start() and stop() calls, the worker
\* tasks that have not ended are the worker of the active bus and the
\* cancelled worker a stop() call still awaits, so at most one worker that
\* is not cancelled exists and only it takes events; start() on a started
\* bus creates no worker; and when stop() returns, the worker it cancelled
\* has ended.
C34_AtMostOneWorker ==
    /\ [](workers = (IF net_is_active THEN 1 ELSE 0) + (IF stopping THEN 1 ELSE 0))
    /\ [][/\ TakesEvent => net_is_active /\ processing_task \in {"waiting", "running"}
          /\ (net_is_active /\ net_is_active') => workers' <= workers
          /\ (stopping /\ ~stopping') =>
                workers' = workers - 1 /\ processing_task' # "cancelled"]_vars

\* start() was called while a stop() call awaits the worker it cancelled:
\* the new worker has taken an event, and the cancelled one has not ended
C34_Witness ==
    /\ stopping
    /\ net_is_active
    /\ workers = 2
    /\ stats.signals_processed = 1
    /\ stopped_at = 0
    /\ accepted = 1

\* C40: while the connector is active and max_reconnect_attempts > 0, every
\* _update_connection_state call that takes the connection from connected to
\* a non-connected state leaves a reconnect loop running, also when an
\* earlier reconnect loop has run to completion; a reconnect loop makes at
\* most max_reconnect_attempts connection attempts, and a pass of the loop
\* that finds the connector connected or deactivated ends it.
C40_DropStartsReconnectLoop ==
    [][/\ (/\ \E new_state \in ConnectionStates \ {"connected"} :
                 UpdateConnectionState(new_state)
           /\ is_active["connector"]
           /\ max_reconnect_attempts > 0)
          => reconnect_task' = "running"
       /\ loop_attempts' <= max_reconnect_attempts
       /\ (/\ \E connects \in BOOLEAN : ReconnectLoop(connects)
           /\ (~is_active["connector"] \/ connection_state = "connected"))
          => reconnect_task' = "done"]_vars

====
